---- MODULE Spec2Model ----
(***************************************************************************)
(* Model of the flux signaling broker (TransferServer, party/server.ts)    *)
(* and of its process-wide CodeManager (code registry, rate limit,         *)
(* lockout).  One room of the broker is modelled; the CodeManager tables   *)
(* are keyed by code and by client key (the connection id, as in           *)
(* onMessage: clientIp = sender.id).                                       *)
(*                                                                         *)
(* Time is Date.now() in milliseconds.  It only advances between handlers  *)
(* (a handler runs to completion on the single event loop).                *)
(*                                                                         *)
(* A connection is "closed", "open" or "closing".  "closing" is the state  *)
(* after the broker called conn.close() and before the transport's close   *)
(* event ran onClose: the connection is still listed by                    *)
(* room.getConnections() and a message the client sent before it saw the   *)
(* close can still arrive at onMessage.                                    *)
(*                                                                         *)
(* The client side is modelled next to the broker: the chunk framing       *)
(* (ChunkManager.serializeChunk / deserializeChunk) and the chunk          *)
(* accumulator (ChunkManager split / addChunk / merge).  A byte is a       *)
(* number in 0..255 and a byte string (Uint8Array, Blob, File content) is  *)
(* a sequence of bytes.                                                    *)
(***************************************************************************)
EXTENDS Integers, Sequences, FiniteSets, TLC

VARIABLES now, conn, peers, locks, nextLock, activeCodes, rateLimits,
          lockouts, joins, lockedRole, ev, sent

\* the framing: a chunk, its bytes on the wire, the last deserializeChunk call
VARIABLES chunk, wire, parsed
\* the accumulator: the file being split, the ChunkManager, the indexes
\* addChunk accepted in arrival order, whether a chunk that split(file) did
\* not produce was passed to addChunk
VARIABLES file, cm, arrival, stray
\* the transfer pipeline: which side compresses, the frames the sender
\* made, how many of them the receiver took
VARIABLES pipe
\* the transfer session: the TransferManager, its WebRTCConnection and
\* SignalingClient, where the sender's loop stands, the last file_metadata
\* dispatched, the last event handled
VARIABLES tm, webrtc, signaling, loop, lastMeta, tev
\* a CodeManager whose generateCode is called, a SignalingClient with its
\* socket and reconnect timer, a WebRTCConnection taking signal() calls
VARIABLES gen, sc, rtc
\* the TransferServer of a second room, which shares the CodeManager
VARIABLES other
\* a sender whose sendFile runs on a file given by its size
VARIABLES big
\* the receiving session at the other end of a sender's data channel
VARIABLES peer

serverVars == <<now, conn, peers, locks, nextLock, activeCodes, rateLimits,
                lockouts, joins, lockedRole, ev, sent>>
frameVars == <<chunk, wire, parsed>>
chunkVars == <<file, cm, arrival, stray>>
sessionVars == <<tm, webrtc, signaling, loop, lastMeta, tev>>
extraVars == <<gen, sc, rtc, other, big, peer>>
clientVars == <<frameVars, chunkVars, pipe, sessionVars, extraVars>>

vars == <<serverVars, clientVars>>

(* ------------------------------ bounds -------------------------------- *)
\* ticks of GateTickMs the gate specification lets the clock make
MaxGateTicks == 6
\* ticks of RoomTickMs the room specification lets the clock make
MaxRoomTicks == 3
\* locks that lock_connection may mint in one run
MaxLocks == 1
\* join_room messages handled in one run of the room specification
MaxRoomJoins == 2

GateTickMs == 60 * 1000
RoomTickMs == 150 * 1000

(* ------------------------- program constants -------------------------- *)
CODE_EXPIRY_MS == 300000
RATE_LIMIT_WINDOW_MS == 60000
RATE_LIMIT_MAX_ATTEMPTS == 10
LOCKOUT_THRESHOLD == 3
LOCKOUT_DURATION_MS == 300000
\* a lock that lives twice as long
LOCK_TTL_MS_Long == 600 * 1000

LOCK_TTL_MS == 300000
MAX_ROOM_CONNECTIONS == 2

(* ------------------------------ inputs -------------------------------- *)
ConnIds == {"c1", "c2", "c3"}
GateConns == {"c1", "c2"}
Roles == {"sender", "receiver"}
\* the room's id (which is its code) and a code nobody registered
RoomId == "000042"
OtherCode == "999999"
Codes == {RoomId, OtherCode}
LockIds == 1..MaxLocks
Payloads == {"sdp1", "sdp2"}
RelayTypes == {"webrtc_offer", "webrtc_answer", "ice_candidate"}
NoId == "none"
Null == 0 - 1

(* --------------------------- Map helpers ------------------------------ *)
MapSet(f, k, v) == [x \in (DOMAIN f) \cup {k} |-> IF x = k THEN v ELSE f[x]]
MapDelete(f, k) == [x \in (DOMAIN f) \ {k} |-> f[x]]
EmptyMap == [x \in {} |-> 0]

(* ============================ CodeManager ============================= *)

registerCode(codes, code, receiverConnectionId, t) ==
  MapSet(codes, code, [receiverConnectionId |-> receiverConnectionId, createdAt |-> t])

\* validateCode with > replaced by >= (expires one instant early)
validateCode_Early(codes, code, t) ==
  IF code \notin DOMAIN codes THEN [ok |-> FALSE, codes |-> codes]
  ELSE IF t - codes[code].createdAt >= CODE_EXPIRY_MS
       THEN [ok |-> FALSE, codes |-> MapDelete(codes, code)]
       ELSE [ok |-> TRUE, codes |-> codes]

\* validateCode that forgets to evict / never expires
validateCode_NoExpiry(codes, code, t) ==
  IF code \notin DOMAIN codes THEN [ok |-> FALSE, codes |-> codes]
  ELSE [ok |-> TRUE, codes |-> codes]

validateCode(codes, code, t) ==
  IF code \notin DOMAIN codes THEN [ok |-> FALSE, codes |-> codes]
  ELSE IF t - codes[code].createdAt > CODE_EXPIRY_MS
       THEN [ok |-> FALSE, codes |-> MapDelete(codes, code)]
       ELSE [ok |-> TRUE, codes |-> codes]

expireCode(codes, code) == MapDelete(codes, code)

\* checkRateLimit with <= instead of < (lets an 11th attempt through)
checkRateLimit_OffByOne(rl, ip, t) ==
  IF ip \notin DOMAIN rl THEN [ok |-> TRUE, rl |-> rl]
  ELSE IF t - rl[ip].windowStart > RATE_LIMIT_WINDOW_MS
       THEN [ok |-> TRUE, rl |-> MapDelete(rl, ip)]
       ELSE [ok |-> rl[ip].attempts <= RATE_LIMIT_MAX_ATTEMPTS, rl |-> rl]

checkRateLimit(rl, ip, t) ==
  IF ip \notin DOMAIN rl THEN [ok |-> TRUE, rl |-> rl]
  ELSE IF t - rl[ip].windowStart > RATE_LIMIT_WINDOW_MS
       THEN [ok |-> TRUE, rl |-> MapDelete(rl, ip)]
       ELSE [ok |-> rl[ip].attempts < RATE_LIMIT_MAX_ATTEMPTS, rl |-> rl]

\* recordAttempt that restarts the window on every attempt
recordAttempt_Restart(rl, ip, t) ==
  MapSet(rl, ip, [attempts |-> 1, windowStart |-> t])

recordAttempt(rl, ip, t) ==
  IF ip \notin DOMAIN rl \/ t - rl[ip].windowStart > RATE_LIMIT_WINDOW_MS
  THEN MapSet(rl, ip, [attempts |-> 1, windowStart |-> t])
  ELSE [rl EXCEPT ![ip].attempts = @ + 1]

\* recordFailedAttempt that locks one failure late
recordFailedAttempt_Late(lo, ip, t) ==
  LET info == IF ip \in DOMAIN lo THEN lo[ip]
              ELSE [failedAttempts |-> 0, lockedUntil |-> Null]
      n == info.failedAttempts + 1
  IN MapSet(lo, ip, [failedAttempts |-> n,
                     lockedUntil |-> IF n > LOCKOUT_THRESHOLD
                                     THEN t + LOCKOUT_DURATION_MS
                                     ELSE info.lockedUntil])

recordFailedAttempt(lo, ip, t) ==
  LET info == IF ip \in DOMAIN lo THEN lo[ip]
              ELSE [failedAttempts |-> 0, lockedUntil |-> Null]
      n == info.failedAttempts + 1
  IN MapSet(lo, ip, [failedAttempts |-> n,
                     lockedUntil |-> IF n >= LOCKOUT_THRESHOLD
                                     THEN t + LOCKOUT_DURATION_MS
                                     ELSE info.lockedUntil])

recordSuccessfulAttempt(lo, ip) == MapDelete(lo, ip)

isLockedOut(lo, ip, t) ==
  IF ip \notin DOMAIN lo \/ lo[ip].lockedUntil = Null
  THEN [locked |-> FALSE, lo |-> lo]
  ELSE IF t > lo[ip].lockedUntil
       THEN [locked |-> FALSE, lo |-> MapDelete(lo, ip)]
       ELSE [locked |-> TRUE, lo |-> lo]

(* ---------------------------- a second room --------------------------- *)
\* new TransferServer(room) for the room whose id is OtherCode
NoOther == [peers |-> EmptyMap, locks |-> EmptyMap]

OtherIdle == other = NoOther

\* the connection of the second room
OtherConn == "o1"

\* client message types onMessage has no case for
UnknownTypes == {"ping", "peer_joined"}

(* --------------------- CodeManager.generateCode ----------------------- *)
\* A code string is the sequence of its characters; the characters of a
\* generated code are decimal digits, written as the numbers 0..9.
RandomCodeRange == 10000
RandomCodeLength == 4
maxAttempts == 100

RECURSIVE toString(_)
\* Number.prototype.toString() of a non-negative integer
toString(num) ==
  IF num < 10 THEN <<num>> ELSE Append(toString(num \div 10), num % 10)

RECURSIVE padStart(_, _, _)
\* String.prototype.padStart(targetLength, padString) with a one-character pad
padStart(str, targetLength, pad) ==
  IF Len(str) >= targetLength THEN str ELSE padStart(<<pad>> \o str, targetLength, pad)

\* generateRandomCode, given num = Math.floor(Math.random() * 10000)
generateRandomCode(num) == padStart(toString(num), RandomCodeLength, 0)

\* isCodeActive: activeCodes.has(code) && validateCode(code); validateCode
\* evicts the code when it has expired
isCodeActive(codes, code, t) == validateCode(codes, code, t)

cleanupExpiredCodes(codes, t) ==
  [c \in {x \in DOMAIN codes : ~(t - codes[x].createdAt > CODE_EXPIRY_MS)} |-> codes[c]]

\* one pass of the do-while loop of generateCode, st being the locals and
\* the table before it: attempts++, the draw, the sweep from the 100th pass
\* on, then the loop condition with its call of isCodeActive.  A loop that
\* has ended stays as it is.
pass(st, draws, t) ==
  IF st.done THEN st
  ELSE LET attempts == st.attempts + 1
           code == generateRandomCode(draws[attempts])
           swept == IF attempts >= maxAttempts THEN cleanupExpiredCodes(st.codes, t)
                    ELSE st.codes
           active == isCodeActive(swept, code, t)
       IN [done |-> ~(active.ok /\ attempts < maxAttempts * 2),
           code |-> code, codes |-> active.codes, attempts |-> attempts]

RECURSIVE passes(_, _, _, _, _)
\* the passes lo..hi of the loop, one after the other, as long as the loop
\* has not ended
passes(st, draws, t, lo, hi) ==
  IF lo = hi THEN pass(st, draws, t)
  ELSE LET half == passes(st, draws, t, lo, (lo + hi) \div 2)
       IN IF half.done THEN half
          ELSE passes(half, draws, t, (lo + hi) \div 2 + 1, hi)

\* generateCode(): the loop ends by its 200th pass at the latest
generateCode(codes, draws, t) ==
  passes([done |-> FALSE, code |-> <<>>, codes |-> codes, attempts |-> 0],
         draws, t, 1, 2 * maxAttempts)

NoGen == [activeCodes |-> EmptyMap, now |-> 0, op |-> "init", code |-> <<>>, attempts |-> 0]

GenIdle == gen = NoGen

(* -------------------------- SignalingClient --------------------------- *)
maxReconnectAttempts == 3
ReconnectBaseMs == 1000
ReconnectCapMs == 10000

Min(a, b) == IF a < b THEN a ELSE b

\* the delay handleReconnect gives to setTimeout, from the value of
\* reconnectAttempts at that point
reconnectDelay(reconnectAttempts) ==
  Min(ReconnectBaseMs * 2 ^ reconnectAttempts, ReconnectCapMs)

\* new SignalingClient(): socket is null ("none") or a PartySocket that is
\* "connecting", "open" or "closed"; timer is the time the pending
\* setTimeout callback is due (Null: none pending); delays are the delays
\* handed to setTimeout since the last successful open; closing counts the
\* sockets disconnect() closed whose onclose has not run yet
NoSc == [socket |-> "none", roomId |-> NoId, reconnectAttempts |-> 0,
         timer |-> Null, now |-> 0, delays |-> <<>>, closing |-> 0, op |-> "init"]

\* handleReconnect
handleReconnect(s) ==
  IF s.reconnectAttempts < maxReconnectAttempts /\ s.roomId # NoId
  THEN LET n == s.reconnectAttempts + 1
       IN [s EXCEPT !.reconnectAttempts = n,
                    !.timer = s.now + reconnectDelay(n),
                    !.delays = Append(@, reconnectDelay(n))]
  ELSE s

\* connect(roomId) up to the construction of the socket
connect(s, roomId) == [s EXCEPT !.roomId = roomId, !.socket = "connecting"]

\* disconnect(): socket.close(), then socket and roomId are forgotten.  The
\* faulty variant keeps the roomId.
disconnect_KeepRoom(s) ==
  [s EXCEPT !.socket = "none",
            !.closing = IF s.socket \in {"connecting", "open"} THEN @ + 1 ELSE @]

disconnect(s) ==
  [s EXCEPT !.socket = "none", !.roomId = NoId,
            !.closing = IF s.socket \in {"connecting", "open"} THEN @ + 1 ELSE @]

SigIdle == sc = NoSc

(* ------------------ WebRTCConnection: ICE candidates ------------------ *)
\* new WebRTCConnection() as far as signal() is concerned.  pc: the
\* RTCPeerConnection exists; remoteDescription: pc.remoteDescription is
\* set; arrays: the arrays that were ever assigned to pendingCandidates,
\* pending the index of the current one; applied: the candidates handed to
\* pc.addIceCandidate, in the order of the calls; chain: the operations
\* the peer connection has not finished yet, in the order it was given
\* them (an operation of task 0 belongs to a signal(candidate) call); tasks:
\* the signal(offer | answer) calls, each "setting" (awaits
\* setRemoteDescription), "replaying" (awaits addIceCandidate inside
\* addPendingCandidates, its iterator at pos of arrays[arr]), "done" or
\* "failed"; given: the number of candidates passed to signal() so far.
NoRtc == [pc |-> FALSE, remoteDescription |-> FALSE, arrays |-> <<<<>>>>,
          pending |-> 1, applied |-> <<>>, chain |-> <<>>, tasks |-> <<>>,
          given |-> 0, op |-> "init"]

\* signal({type: 'offer' | 'answer'}) up to its first await
signalDescription(r) ==
  [r EXCEPT !.tasks = Append(@, [stage |-> "setting", arr |-> 0, pos |-> 0]),
            !.chain = Append(@, [kind |-> "setRemoteDescription", task |-> Len(r.tasks) + 1])]

\* signal({type: 'candidate', candidate}) up to its first await
signalCandidate(r, candidate) ==
  IF r.remoteDescription
  THEN [r EXCEPT !.applied = Append(@, candidate),
                 !.chain = Append(@, [kind |-> "addIceCandidate", task |-> 0])]
  ELSE [r EXCEPT !.arrays[r.pending] = Append(@, candidate)]

\* the for..of loop of addPendingCandidates run by task k, from the element
\* after pos to its next await, or to this.pendingCandidates = [] at its end
replay(r, k, arr, pos) ==
  IF pos < Len(r.arrays[arr])
  THEN [r EXCEPT !.applied = Append(@, r.arrays[arr][pos + 1]),
                 !.chain = Append(@, [kind |-> "addIceCandidate", task |-> k]),
                 !.tasks[k] = [stage |-> "replaying", arr |-> arr, pos |-> pos + 1]]
  ELSE [r EXCEPT !.arrays = Append(@, <<>>),
                 !.pending = Len(r.arrays) + 1,
                 !.tasks[k] = [stage |-> "done", arr |-> arr, pos |-> pos]]

\* addPendingCandidates() called by task k
addPendingCandidates(r, k) == replay(r, k, r.pending, 0)

\* the peer connection finished the first operation of its chain; the call
\* that awaited it goes on
resolved(r, ok) ==
  LET o == Head(r.chain)
      r1 == [r EXCEPT !.chain = Tail(@)]
  IN IF o.kind = "setRemoteDescription"
     THEN IF ok THEN addPendingCandidates([r1 EXCEPT !.remoteDescription = TRUE], o.task)
          ELSE [r1 EXCEPT !.tasks[o.task].stage = "failed"]
     ELSE IF o.task = 0 THEN r1
     ELSE replay(r1, o.task, r1.tasks[o.task].arr, r1.tasks[o.task].pos)

IceIdle == rtc = NoRtc

(* ------------------- sendFile on a file given by its size ------------- *)
\* The sender's sendFile reads file.size and file.slice(start, end) only.
\* Here the file is its size; a chunk's payload is the slice it was read
\* from, marked gzip once compress has turned it into a stream.
NoSlice == [start |-> 0, end |-> 0, gzip |-> FALSE]
NoSerialized == [header |-> <<>>, data |-> NoSlice]

NoBig == [phase |-> "idle", size |-> 0, enableCompression |-> FALSE, chunkSize |-> 1,
          supported |-> FALSE, compressed |-> FALSE, next |-> 0, sent |-> NoSerialized]

BigIdle == big = NoBig


(* ============================ TransferServer ========================== *)

\* room.getConnections(): every connection whose close event has not run
getConnections(cn) == {c \in ConnIds : cn[c] # "closed"}

NoSent == [c \in ConnIds |-> <<>>]
\* conn.send(JSON.stringify(message))
send(s, c, message) == [s EXCEPT ![c] = Append(@, message)]
errorMessage(code, message) == [type |-> "error", code |-> code, message |-> message]
\* sendError that writes to every connection of the room
sendError_Everyone(s, c, code, message) ==
  [d \in ConnIds |-> Append(s[d], errorMessage(code, message))]

sendError(s, c, code, message) == send(s, c, errorMessage(code, message))
\* room.broadcast(msg): one send to every connection of the room
broadcast(s, cn, message) ==
  [c \in ConnIds |-> IF c \in getConnections(cn) THEN Append(s[c], message) ELSE s[c]]
\* broadcastExcept that forgets the exclusion
broadcastExcept_NoExclude(s, cn, excludeId, message) ==
  [c \in ConnIds |-> IF c \in getConnections(cn) THEN Append(s[c], message) ELSE s[c]]

broadcastExcept(s, cn, excludeId, message) ==
  [c \in ConnIds |-> IF c \in getConnections(cn) /\ c # excludeId
                     THEN Append(s[c], message) ELSE s[c]]

(* ------------------------- client: chunk framing ---------------------- *)
\* longest payload of a chunk, in bytes
MaxPayloadLen == 2

\* the byte values payloads are made of
PayloadBytes == {0, 255}
\* chunk indexes: one per byte position of the u32, and the largest
\* number the model's integers hold
Indexes == {0, 1, 258, 65536 + 2, 3 * 16777216, 2147483647}

RECURSIVE SeqsUpTo(_, _)
\* the sequences over S of length 0..n
SeqsUpTo(S, n) ==
  IF n = 0 THEN {<<>>}
  ELSE LET shorter == SeqsUpTo(S, n - 1)
       IN shorter \cup {Append(q, x) : q \in {r \in shorter : Len(r) = n - 1}, x \in S}

\* a Chunk: index, data, size (size is a field of its own; split sets it to
\* data.byteLength, sendFile keeps it while it replaces data)
FrameChunks ==
  {[index |-> i, data |-> d, size |-> n] :
     i \in Indexes, d \in SeqsUpTo(PayloadBytes, MaxPayloadLen), n \in 0..MaxPayloadLen}

\* DataView.setUint32(offset, n, true): the four bytes of n, lowest first
\* (the bits above the 32nd are dropped), and a faulty variant that writes
\* the highest byte first
setUint32_BigEndian(n) ==
  <<(n \div 16777216) % 256, (n \div 65536) % 256, (n \div 256) % 256, n % 256>>

setUint32(n) ==
  <<n % 256, (n \div 256) % 256, (n \div 65536) % 256, (n \div 16777216) % 256>>

\* DataView.getUint32(offset, true) on bytes offset+1 .. offset+4 (1-based)
getUint32(bytes, offset) ==
  bytes[offset + 1] + 256 * bytes[offset + 2] + 65536 * bytes[offset + 3]
    + 16777216 * bytes[offset + 4]

\* [4 bytes index][4 bytes size][data]
serializeChunk(c) == setUint32(c.index) \o setUint32(c.size) \o c.data

NoChunk == [index |-> 0, data |-> <<>>, size |-> 0]

\* throws below 8 bytes; otherwise reads the header and takes every byte
\* after it as the data, whatever the size field says
deserializeChunk(data) ==
  IF Len(data) < 8
  THEN [ok |-> FALSE, chunk |-> NoChunk]
  ELSE [ok |-> TRUE,
        chunk |-> [index |-> getUint32(data, 0),
                   data |-> SubSeq(data, 9, Len(data)),
                   size |-> getUint32(data, 4)]]

NoParse == [called |-> FALSE, input |-> <<>>, ok |-> FALSE, chunk |-> NoChunk]

FrameIdle ==
  /\ chunk = NoChunk
  /\ wire = <<>>
  /\ parsed = NoParse

(* ----------------------- client: chunk accumulator -------------------- *)
\* longest file, in bytes, and largest chunkSize of a ChunkManager
MaxFileLen == 3
MaxChunkSize == 2

\* the byte values file contents are made of (31 is also the first byte of
\* a compressed stream)
FileBytes == {1, 31}
\* the payload of a chunk that no split produced
StrayData == <<0>>

\* a File: name, type and content
Files ==
  {[name |-> "a.bin", type |-> "text/plain", bytes |-> b] :
     b \in SeqsUpTo(FileBytes, MaxFileLen)}
NoFile == [name |-> "", type |-> "", bytes |-> <<>>]

NoMetadata == [totalChunks |-> Null, totalSize |-> 0, chunkSize |-> 0,
               fileName |-> "", fileType |-> ""]

\* new ChunkManager(chunkSize)
newChunkManager(chunkSize) ==
  [chunkSize |-> chunkSize, receivedChunks |-> EmptyMap, metadata |-> NoMetadata]

\* the chunks split(file) yields, in the order it yields them; chunk i is
\* element i + 1.  The faulty variant drops a last chunk that is not full.
split_NoTail(f, chunkSize) ==
  [k \in 1..(Len(f.bytes) \div chunkSize) |->
     [index |-> k - 1, data |-> SubSeq(f.bytes, (k - 1) * chunkSize + 1, k * chunkSize),
      size |-> chunkSize]]

split(f, chunkSize) ==
  LET size == Len(f.bytes)
      totalChunks == (size + chunkSize - 1) \div chunkSize
  IN [k \in 1..totalChunks |->
        LET start == (k - 1) * chunkSize
            end == IF start + chunkSize < size THEN start + chunkSize ELSE size
            data == SubSeq(f.bytes, start + 1, end)
        IN [index |-> k - 1, data |-> data, size |-> Len(data)]]

createMetadata(f, chunkSize) ==
  [totalChunks |-> (Len(f.bytes) + chunkSize - 1) \div chunkSize,
   totalSize |-> Len(f.bytes),
   chunkSize |-> chunkSize,
   fileName |-> f.name,
   fileType |-> IF f.type = "" THEN "application/octet-stream" ELSE f.type]

setMetadata(m, metadata) == [m EXCEPT !.metadata = metadata]

\* addChunk that refuses a duplicate and still stores its payload
addChunk_Overwrite(m, c) ==
  [ok |-> c.index \notin DOMAIN m.receivedChunks,
   cm |-> [m EXCEPT !.receivedChunks = MapSet(@, c.index, c.data)]]

\* addChunk: a first chunk of an index is stored, a later one is refused
addChunk(m, c) ==
  IF c.index \in DOMAIN m.receivedChunks
  THEN [ok |-> FALSE, cm |-> m]
  ELSE [ok |-> TRUE,
        cm |-> [m EXCEPT !.receivedChunks = MapSet(@, c.index, c.data)]]

isComplete(m) ==
  IF m.metadata = NoMetadata THEN FALSE
  ELSE Cardinality(DOMAIN m.receivedChunks) = m.metadata.totalChunks

\* the set of the indexes getMissingChunks lists
getMissingChunks(m) ==
  IF m.metadata = NoMetadata THEN {}
  ELSE {i \in 0..(m.metadata.totalChunks - 1) : i \notin DOMAIN m.receivedChunks}

RECURSIVE collect(_, _)
\* the chunks 0 .. n - 1 of the map, one after the other
collect(received, n) ==
  IF n = 0 THEN <<>> ELSE collect(received, n - 1) \o received[n - 1]

\* merge: throws without metadata, when isComplete() is false and when the
\* loop over 0 .. totalChunks - 1 finds no chunk; otherwise the Blob
merge(m) ==
  IF m.metadata = NoMetadata THEN [ok |-> FALSE, bytes |-> <<>>]
  ELSE IF ~isComplete(m) THEN [ok |-> FALSE, bytes |-> <<>>]
  ELSE IF \E i \in 0..(m.metadata.totalChunks - 1) : i \notin DOMAIN m.receivedChunks
  THEN [ok |-> FALSE, bytes |-> <<>>]
  ELSE [ok |-> TRUE, bytes |-> collect(m.receivedChunks, m.metadata.totalChunks)]

toFile(m) ==
  IF ~merge(m).ok THEN [ok |-> FALSE, file |-> NoFile]
  ELSE [ok |-> TRUE,
        file |-> [name |-> m.metadata.fileName, type |-> m.metadata.fileType,
                  bytes |-> merge(m).bytes]]

reset(m) == [m EXCEPT !.receivedChunks = EmptyMap, !.metadata = NoMetadata]

ChunkIdle ==
  /\ file = NoFile
  /\ cm = newChunkManager(1)
  /\ arrival = <<>>
  /\ stray = FALSE

(* -------------------------- client: compression ----------------------- *)
\* CompressionStream('gzip') and DecompressionStream('gzip') are the
\* platform's codec.  The model's codec keeps what the transfer uses of it:
\* the stream starts with the two gzip magic bytes, it is a function of the
\* input, decompression inverts it and rejects bytes that are no stream.
\* Behind the magic bytes the input is run-length coded: a count byte and a
\* value byte per run.
GzipMagic == <<31, 139>>

\* the length of the first run of a non-empty byte string
firstRun(s) ==
  CHOOSE n \in 1..Len(s) :
    /\ \A k \in 1..n : s[k] = s[1]
    /\ n = Len(s) \/ s[n + 1] # s[1]

RECURSIVE deflate(_)
deflate(s) ==
  IF s = <<>> THEN <<>>
  ELSE <<firstRun(s), s[1]>> \o deflate(SubSeq(s, firstRun(s) + 1, Len(s)))

RECURSIVE inflate(_)
inflate(body) ==
  IF body = <<>> THEN <<>>
  ELSE [k \in 1..body[1] |-> body[2]] \o inflate(SubSeq(body, 3, Len(body)))

\* a stream the decompressor accepts
isStream(data) ==
  /\ Len(data) >= 2
  /\ SubSeq(data, 1, 2) = GzipMagic
  /\ Len(data) % 2 = 0
  /\ \A k \in 2..(Len(data) \div 2) : data[2 * k - 1] >= 1

\* compress: the data itself when the platform has no CompressionStream.
\* The faulty variant never compresses.
compress_Identity(data, supported) == data

compress(data, supported) ==
  IF ~supported THEN data ELSE GzipMagic \o deflate(data)

\* decompress: the data itself when the platform has no
\* DecompressionStream; the promise rejects on bytes that are no stream
decompress(data, supported) ==
  IF ~supported THEN [ok |-> TRUE, data |-> data]
  ELSE IF isStream(data)
  THEN [ok |-> TRUE, data |-> inflate(SubSeq(data, 3, Len(data)))]
  ELSE [ok |-> FALSE, data |-> <<>>]

\* senderPipeline: File -> split -> (compress) -> serialize
senderPipeline(f, chunkSize, shouldCompress, supported) ==
  [k \in DOMAIN split(f, chunkSize) |->
     LET c == split(f, chunkSize)[k]
         data == IF shouldCompress THEN compress(c.data, supported) ELSE c.data
     IN serializeChunk([c EXCEPT !.data = data])]

NoPipe == [supported |-> FALSE, shouldCompress |-> FALSE, isCompressed |-> FALSE,
           sent |-> FALSE, serializedChunks |-> <<>>, taken |-> 0, failed |-> FALSE]

PipeIdle == pipe = NoPipe

(* ------------------------ client: transfer session -------------------- *)
\* One TransferManager with its WebRTCConnection and SignalingClient.  The
\* platform has the streaming codec (CompressionService.isSupported()).
\* progress events depend on the wall clock only and are left out of the
\* emitted events.
CodecSupported == TRUE

minSizeForCompression == 10 * 1024
maxSizeForCompression == 100 * 1024 * 1024

\* The faulty variant has no upper limit.
shouldCompress_NoCeiling(size) == size >= minSizeForCompression

shouldCompress(size) ==
  size >= minSizeForCompression /\ size <= maxSizeForCompression

TransferStatus ==
  {"idle", "connecting", "waiting", "transferring", "completed", "error", "cancelled"}

\* new TransferManager(options); pending holds the chunks whose decompress
\* has not returned yet, emitted the events the last handler gave to the
\* session's subscribers
newTransferManager(chunkSize, enableCompression) ==
  [status |-> "idle", role |-> NoId, files |-> <<>>,
   options |-> [enableCompression |-> enableCompression, chunkSize |-> chunkSize],
   chunkManager |-> newChunkManager(chunkSize),
   isCurrentFileCompressed |-> FALSE, webrtcCreated |-> FALSE,
   signalingHandlers |-> 0, webrtcHandlers |-> 0, eventHandlers |-> FALSE,
   pending |-> <<>>, emitted |-> <<>>]

\* new WebRTCConnection(): no data channel; out is what send() handed to
\* the data channel so far (with the number of the file it belongs to),
\* taken the number of datagrams the data channel delivered
newWebRTCConnection == [dataChannel |-> "none", out |-> <<>>, taken |-> 0]

emit(t, event) ==
  IF t.eventHandlers THEN [t EXCEPT !.emitted = Append(@, event)] ELSE t

setStatus(t, status) ==
  emit([t EXCEPT !.status = status], [type |-> "status_change", data |-> status])

errorEvent(message) == [type |-> "error", data |-> message]

\* WebRTCConnection.send / sendJSON: throws unless the data channel is open
webrtcSend(w, data) ==
  IF w.dataChannel # "open" THEN [ok |-> FALSE, webrtc |-> w]
  ELSE [ok |-> TRUE, webrtc |-> [w EXCEPT !.out = Append(@, data)]]

\* webrtc.create(..) followed by setupWebRTCHandlers()
webrtcCreate(w) == [w EXCEPT !.dataChannel = "connecting"]

\* WebRTCConnection.destroy()
destroy(w) == [w EXCEPT !.dataChannel = "none"]

\* the webrtc 'error' handler
onWebrtcError(t) == emit(setStatus(t, "error"), errorEvent("webrtc error"))

\* the test of the webrtc 'disconnected' handler, and a faulty variant that
\* only reacts while transferring
reactsToDisconnect_OnlyTransferring(status) == status = "transferring"

reactsToDisconnect(status) == status # "completed" /\ status # "cancelled"

\* the webrtc 'disconnected' handler
onWebrtcDisconnected(t) ==
  IF reactsToDisconnect(t.status)
  THEN emit(setStatus(t, "error"), errorEvent("Connection lost"))
  ELSE t

\* the signaling 'error' handler
onSignalingError(t) == emit(setStatus(t, "error"), errorEvent("signaling error"))

\* the flag handleFileMetadata keeps for the chunks that follow, and a
\* faulty variant that never clears it
currentFileCompressed_Latch(old, message) == old \/ message.compressed

currentFileCompressed(old, message) == message.compressed

handleFileMetadata(t, message) ==
  [t EXCEPT !.chunkManager = setMetadata(reset(@), message.metadata),
            !.isCurrentFileCompressed = currentFileCompressed(@, message)]

handleTransferComplete(t) ==
  emit(setStatus(t, "completed"), [type |-> "transfer_complete", data |-> ""])

\* the .catch of handleReceivedData on a rejected handleChunkData
chunkFailed(t) ==
  emit(setStatus(t, "error"), errorEvent("Chunk processing failed"))

\* handleChunkData from addChunk on
storeChunk(t, c) ==
  LET t1 == [t EXCEPT !.chunkManager = addChunk(@, c).cm]
  IN IF ~isComplete(t1.chunkManager) THEN t1
     ELSE IF ~toFile(t1.chunkManager).ok THEN chunkFailed(t1)
     ELSE emit(t1, [type |-> "file_received", data |-> toFile(t1.chunkManager).file])

\* handleChunkData up to the await of decompress
handleChunkData(t, data) ==
  LET d == deserializeChunk(data)
  IN IF ~d.ok THEN chunkFailed(t)
     ELSE IF t.isCurrentFileCompressed
     THEN [t EXCEPT !.pending = Append(@, d.chunk)]
     ELSE storeChunk(t, d.chunk)

\* handleChunkData after decompress returned for the k-th pending chunk
decompressDone(t, k) ==
  LET c == t.pending[k]
      rest == [t EXCEPT !.pending = SubSeq(@, 1, k - 1) \o SubSeq(@, k + 1, Len(@))]
      z == decompress(c.data, CodecSupported)
  IN IF z.ok THEN storeChunk(rest, [c EXCEPT !.data = z.data]) ELSE chunkFailed(rest)

\* a datagram is a string (a JSON message) or binary (a chunk frame)
handleReceivedData(t, data) ==
  IF data.kind = "string"
  THEN IF data.message.type = "file_metadata" THEN handleFileMetadata(t, data.message)
       ELSE IF data.message.type = "transfer_complete" THEN handleTransferComplete(t)
       ELSE t
  ELSE handleChunkData(t, data.bytes)

\* cleanup(): the part that changes the TransferManager
cleanup(t) ==
  [t EXCEPT !.signalingHandlers = 0, !.webrtcHandlers = 0,
            !.chunkManager = reset(@), !.eventHandlers = FALSE,
            !.webrtcCreated = FALSE]

\* an event of the WebRTCConnection reaches every handler set registered
twice(Handler(_), n, t) ==
  IF n = 0 THEN t ELSE IF n = 1 THEN Handler(t) ELSE Handler(Handler(t))

fileMetadataMessage(f, chunkSize, compressed) ==
  [type |-> "file_metadata", metadata |-> createMetadata(f, chunkSize),
   compressed |-> compressed, encrypted |-> TRUE]

transferCompleteMessage ==
  [type |-> "transfer_complete", metadata |-> NoMetadata,
   compressed |-> FALSE, encrypted |-> FALSE]

NoMessage == [type |-> "none", metadata |-> NoMetadata,
              compressed |-> FALSE, encrypted |-> FALSE]

\* what the data channel carries
stringData(message, k) == [kind |-> "string", message |-> message, bytes |-> <<>>, file |-> k]
binaryData(bytes, k) == [kind |-> "binary", message |-> NoMessage, bytes |-> bytes, file |-> k]

NoLoop == [phase |-> "idle", file |-> 0, next |-> 0]
NoEvent == [op |-> "init", before |-> "idle", kind |-> "none"]

\* the receiving session: its TransferManager, whether its end of the data
\* channel is open, the datagrams it took, the files of its file_received
\* events; and, where the channel's content is given from the start, the
\* files that content was made from with their compressed flags
NoPeer == [tm |-> newTransferManager(1, FALSE), connected |-> FALSE, taken |-> 0,
           received |-> <<>>, channelFiles |-> <<>>, channelFlags |-> <<>>]

PeerIdle == peer = NoPeer

ExtraIdle == GenIdle /\ SigIdle /\ IceIdle /\ OtherIdle /\ BigIdle /\ PeerIdle

SessionIdle ==
  /\ tm = newTransferManager(1, FALSE)
  /\ webrtc = newWebRTCConnection
  /\ signaling = "idle"
  /\ loop = NoLoop
  /\ lastMeta = NoMessage
  /\ tev = NoEvent

\* the room and the CodeManager after construction
BrokerIdle ==
  /\ now = 0
  /\ conn = [c \in ConnIds |-> "closed"]
  /\ peers = EmptyMap
  /\ locks = EmptyMap
  /\ nextLock = 1
  /\ activeCodes = EmptyMap
  /\ rateLimits = EmptyMap
  /\ lockouts = EmptyMap
  /\ joins = 0
  /\ lockedRole = EmptyMap
  /\ ev = [op |-> "init", c |-> NoId, res |-> "none"]
  /\ sent = NoSent

Init == BrokerIdle /\ FrameIdle /\ ChunkIdle /\ PipeIdle /\ SessionIdle /\ ExtraIdle

\* Date.now() advances between two handlers
Tick(step, maxTicks) ==
  /\ now + step <= step * maxTicks
  /\ now' = now + step
  /\ ev' = [op |-> "tick", c |-> NoId, res |-> "none"]
  /\ sent' = NoSent
  /\ UNCHANGED <<conn, peers, locks, nextLock, activeCodes, rateLimits, lockouts, joins, lockedRole>>
  /\ UNCHANGED clientVars

onConnect(c) ==
  /\ conn[c] = "closed"
  /\ LET opened == [conn EXCEPT ![c] = "open"]
         connectionCount == Cardinality(getConnections(opened))
     IN IF connectionCount > MAX_ROOM_CONNECTIONS
        THEN /\ conn' = [conn EXCEPT ![c] = "closing"]
             /\ sent' = sendError(NoSent, c, "ROOM_FULL", "This transfer room is full")
             /\ ev' = [op |-> "connect", c |-> c, res |-> "ROOM_FULL"]
        ELSE /\ conn' = opened
             /\ sent' = NoSent
             /\ ev' = [op |-> "connect", c |-> c, res |-> "ACCEPTED"]
  /\ UNCHANGED <<now, peers, locks, nextLock, activeCodes, rateLimits, lockouts, joins, lockedRole>>
  /\ UNCHANGED clientVars

onClose(c) ==
  /\ conn[c] # "closed"
  /\ LET closed == [conn EXCEPT ![c] = "closed"]
         wasPeer == c \in DOMAIN peers
         peers1 == IF wasPeer THEN MapDelete(peers, c) ELSE peers
     IN /\ conn' = closed
        /\ sent' = IF wasPeer
                   THEN broadcastExcept(NoSent, conn, c,
                          [type |-> "error", code |-> "PEER_DISCONNECTED",
                           message |-> peers[c].role])
                   ELSE NoSent
        /\ peers' = peers1
        /\ activeCodes' = IF DOMAIN peers1 = {} THEN expireCode(activeCodes, RoomId)
                          ELSE activeCodes
        /\ ev' = [op |-> "close", c |-> c,
                  res |-> IF wasPeer THEN "peer" ELSE "stranger"]
  /\ UNCHANGED <<now, locks, nextLock, rateLimits, lockouts, joins, lockedRole>>
  /\ UNCHANGED clientVars

\* the PeerInfo join_room registers, and a faulty variant that ignores the declared role
joinedPeer_AlwaysSender(c, role) == [connectionId |-> c, role |-> "sender"]

joinedPeer(c, role) == [connectionId |-> c, role |-> role]

handleGenerateCode(c) ==
  /\ conn[c] # "closed"
  /\ activeCodes' = registerCode(activeCodes, RoomId, c, now)
  /\ peers' = MapSet(peers, c, [connectionId |-> c, role |-> "receiver"])
  /\ sent' = send(NoSent, c, [type |-> "code_generated", code |-> RoomId,
                              roomId |-> RoomId, timestamp |-> now])
  /\ ev' = [op |-> "generate_code", c |-> c, res |-> "OK"]
  /\ UNCHANGED <<now, conn, locks, nextLock, rateLimits, lockouts, joins, lockedRole>>
  /\ UNCHANGED clientVars


\* handleJoinRoom: the gate isLockedOut -> checkRateLimit -> recordAttempt ->
\* validateCode, then recordFailedAttempt or recordSuccessfulAttempt
handleJoinRoom(c, code, role) ==
  /\ conn[c] # "closed"
  /\ LET clientIp == c
         l == isLockedOut(lockouts, clientIp, now)
         r == checkRateLimit(rateLimits, clientIp, now)
         attempted == recordAttempt(r.rl, clientIp, now)
         v == validateCode(activeCodes, code, now)
         createdAt == IF code \in DOMAIN activeCodes THEN activeCodes[code].createdAt
                      ELSE Null
     IN IF l.locked
        THEN /\ sent' = sendError(NoSent, c, "RATE_LIMITED", "Too many failed attempts")
             /\ ev' = [op |-> "join_room", c |-> c, res |-> "LOCKED_OUT",
                       code |-> code, role |-> role, createdAt |-> createdAt]
             /\ lockouts' = l.lo
             /\ UNCHANGED <<rateLimits, activeCodes, peers>>
        ELSE IF ~r.ok
        THEN /\ sent' = sendError(NoSent, c, "RATE_LIMITED", "Too many requests")
             /\ ev' = [op |-> "join_room", c |-> c, res |-> "RATE_LIMIT",
                       code |-> code, role |-> role, createdAt |-> createdAt]
             /\ lockouts' = l.lo
             /\ rateLimits' = r.rl
             /\ UNCHANGED <<activeCodes, peers>>
        ELSE IF ~v.ok
        THEN /\ sent' = sendError(NoSent, c, "INVALID_CODE", "Invalid or expired code")
             /\ ev' = [op |-> "join_room", c |-> c, res |-> "INVALID_CODE",
                       code |-> code, role |-> role, createdAt |-> createdAt]
             /\ lockouts' = recordFailedAttempt(l.lo, clientIp, now)
             /\ rateLimits' = attempted
             /\ activeCodes' = v.codes
             /\ UNCHANGED peers
        ELSE /\ sent' = broadcast(NoSent, conn,
                          [type |-> "peer_joined", peerId |-> c, role |-> role,
                           timestamp |-> now])
             /\ ev' = [op |-> "join_room", c |-> c, res |-> "JOINED",
                       code |-> code, role |-> role, createdAt |-> createdAt]
             /\ lockouts' = recordSuccessfulAttempt(l.lo, clientIp)
             /\ rateLimits' = attempted
             /\ activeCodes' = v.codes
             /\ peers' = MapSet(peers, c, joinedPeer(c, role))
  /\ UNCHANGED <<now, conn, locks, nextLock, lockedRole>>
  /\ UNCHANGED clientVars

\* lockId is `lock_${Date.now()}_${Math.random()...}`: a fresh id each call
handleLockConnection(c, peerId) ==
  /\ conn[c] # "closed"
  /\ nextLock <= MaxLocks
  /\ LET lockId == nextLock
         expiresAt == now + LOCK_TTL_MS
     IN /\ locks' = MapSet(locks, lockId,
                      [lockId |-> lockId, peerId |-> peerId, expiresAt |-> expiresAt])
        /\ sent' = send(NoSent, c, [type |-> "connection_locked", lockId |-> lockId,
                                    expiresAt |-> expiresAt])
        /\ ev' = [op |-> "lock_connection", c |-> c, res |-> "OK",
                  lockId |-> lockId, peerId |-> peerId,
                  role |-> IF peerId \in DOMAIN peers THEN peers[peerId].role ELSE NoId]
  /\ nextLock' = nextLock + 1
  \* history: the role the locking peer held when it locked itself
  /\ lockedRole' = MapSet(lockedRole, nextLock,
                      IF peerId = c /\ c \in DOMAIN peers THEN peers[c].role ELSE NoId)
  /\ UNCHANGED <<now, conn, peers, activeCodes, rateLimits, lockouts, joins>>
  /\ UNCHANGED clientVars

\* this.locks.delete(lockId), and a faulty variant that leaves the lock in place
consumeLock_Keep(lk, lockId) == lk

consumeLock(lk, lockId) == MapDelete(lk, lockId)

handleReconnectWithLock(c, lockId) ==
  /\ conn[c] # "closed"
  /\ IF lockId \notin DOMAIN locks
     THEN /\ sent' = sendError(NoSent, c, "LOCK_NOT_FOUND", "Lock not found")
          /\ ev' = [op |-> "reconnect_with_lock", c |-> c, res |-> "LOCK_NOT_FOUND",
                    lockId |-> lockId, peerId |-> NoId]
          /\ UNCHANGED <<locks, peers>>
     ELSE IF now > locks[lockId].expiresAt
     THEN /\ locks' = consumeLock(locks, lockId)
          /\ sent' = sendError(NoSent, c, "LOCK_EXPIRED", "Lock has expired")
          /\ ev' = [op |-> "reconnect_with_lock", c |-> c, res |-> "LOCK_EXPIRED",
                    lockId |-> lockId, peerId |-> locks[lockId].peerId]
          /\ UNCHANGED peers
     ELSE LET lock == locks[lockId]
              hasExisting == lock.peerId \in DOMAIN peers
          IN /\ locks' = consumeLock(locks, lockId)
             /\ peers' = IF hasExisting
                         THEN MapSet(MapDelete(peers, lock.peerId), c, peers[lock.peerId])
                         ELSE peers
             /\ sent' = send(NoSent, c,
                          [type |-> "peer_joined", peerId |-> c,
                           role |-> IF hasExisting THEN peers[lock.peerId].role
                                    ELSE "sender",
                           timestamp |-> now])
             /\ ev' = [op |-> "reconnect_with_lock", c |-> c, res |-> "RECONNECTED",
                       lockId |-> lockId, peerId |-> lock.peerId]
  /\ UNCHANGED <<now, conn, nextLock, activeCodes, rateLimits, lockouts, joins, lockedRole>>
  /\ UNCHANGED clientVars

\* forwardToTarget without the envelope rewrite (target.send(message))
forwardToTarget_Raw(s, cn, targetId, message, fromPeerId) ==
  IF targetId \in getConnections(cn) THEN send(s, targetId, message) ELSE s

\* forwardToTarget that also acknowledges to the sender
forwardToTarget_Echo(s, cn, targetId, message, fromPeerId) ==
  IF targetId \in getConnections(cn)
  THEN send(send(s, targetId, [message EXCEPT !.fromPeerId = fromPeerId]),
            fromPeerId, [message EXCEPT !.fromPeerId = fromPeerId])
  ELSE s

forwardToTarget(s, cn, targetId, message, fromPeerId) ==
  IF targetId \in getConnections(cn)
  THEN IF fromPeerId # NoId
       THEN send(s, targetId, [message EXCEPT !.fromPeerId = fromPeerId])
       ELSE send(s, targetId, message)
  ELSE s

\* the client message of a relay: type, targetPeerId, an opaque body and
\* whatever fromPeerId the client wrote (NoId: the field is absent)
RelayMessages ==
  [type : RelayTypes, targetPeerId : ConnIds, body : Payloads,
   fromPeerId : ConnIds \cup {NoId}]

\* onMessage, cases webrtc_offer / webrtc_answer / ice_candidate
onRelay(c, message) ==
  /\ conn[c] # "closed"
  /\ sent' = forwardToTarget(NoSent, conn, message.targetPeerId, message, c)
  /\ ev' = [op |-> "relay", c |-> c, res |-> "none", message |-> message]
  /\ UNCHANGED <<now, conn, peers, locks, nextLock, activeCodes, rateLimits,
                 lockouts, joins, lockedRole>>
  /\ UNCHANGED clientVars

\* onMessage, default case
onUnknownMessage(c, type) ==
  /\ conn[c] # "closed"
  /\ sent' = sendError(NoSent, c, "INVALID_CODE", "Unknown message type")
  /\ ev' = [op |-> "unknown", c |-> c, res |-> "INVALID_CODE", type |-> type]
  /\ UNCHANGED <<now, conn, peers, locks, nextLock, activeCodes, rateLimits,
                 lockouts, joins, lockedRole>>
  /\ UNCHANGED clientVars

\* handleGenerateCode of the second room: it registers its own id with the
\* CodeManager both rooms share
otherGenerateCode ==
  /\ activeCodes' = registerCode(activeCodes, OtherCode, OtherConn, now)
  /\ other' = [other EXCEPT !.peers = MapSet(@, OtherConn,
                                        [connectionId |-> OtherConn, role |-> "receiver"])]
  /\ sent' = NoSent
  /\ ev' = [op |-> "other_generate_code", c |-> NoId, res |-> "OK"]
  /\ UNCHANGED <<now, conn, peers, locks, nextLock, rateLimits, lockouts, joins, lockedRole>>
  /\ UNCHANGED <<frameVars, chunkVars, pipe, sessionVars, gen, sc, rtc, big, peer>>

\* handleLockConnection of the second room (its first lock): the lock goes
\* into its own locks map; its id is a string of time and random digits
\* like any other
otherLockConnection(lockId) ==
  /\ other.locks = EmptyMap
  /\ other' = [other EXCEPT !.locks = MapSet(@, lockId,
                 [lockId |-> lockId, peerId |-> OtherConn, expiresAt |-> now + LOCK_TTL_MS])]
  /\ sent' = NoSent
  /\ ev' = [op |-> "other_lock_connection", c |-> NoId, res |-> "OK"]
  /\ UNCHANGED <<now, conn, peers, locks, nextLock, activeCodes, rateLimits, lockouts,
                 joins, lockedRole>>
  /\ UNCHANGED <<frameVars, chunkVars, pipe, sessionVars, gen, sc, rtc, big, peer>>

(* --------------------------- specifications --------------------------- *)

\* join_room as the gate specification takes it
GateJoin(c, code, role) == handleJoinRoom(c, code, role) /\ UNCHANGED joins

\* join_room as the room specification takes it: at most MaxRoomJoins of them
RoomJoin(c, code, role) ==
  /\ joins < MaxRoomJoins
  /\ handleJoinRoom(c, code, role)
  /\ joins' = joins + 1

\* The abuse-control gate: two connections, the clock in steps of 60 s.
GateNext ==
  \/ Tick(GateTickMs, MaxGateTicks)
  \/ \E c \in GateConns : onConnect(c)
  \/ \E c \in GateConns : onClose(c)
  \/ handleGenerateCode("c1")
  \/ \E code \in Codes, role \in Roles : GateJoin("c2", code, role)

GateSpec == Init /\ [][GateNext]_vars

\* The room: three connections that connect, register and close; no clock.
RoomNext ==
  \/ \E c \in ConnIds : onConnect(c)
  \/ \E c \in ConnIds : onClose(c)
  \/ \E c \in ConnIds : handleGenerateCode(c)
  \/ \E c \in ConnIds, code \in Codes, role \in Roles : RoomJoin(c, code, role)

RoomSpec == Init /\ [][RoomNext]_vars

\* The locks: two connections, the clock in steps of 150 s.
LockNext ==
  \/ Tick(RoomTickMs, MaxRoomTicks)
  \/ \E c \in GateConns : onConnect(c)
  \/ \E c \in GateConns : onClose(c)
  \/ \E c \in GateConns : handleGenerateCode(c)
  \/ \E c \in GateConns, peerId \in ConnIds : handleLockConnection(c, peerId)
  \/ \E c \in GateConns, lockId \in LockIds : handleReconnectWithLock(c, lockId)

LockSpec == Init /\ [][LockNext]_vars

\* The relay: three connections, no clock.
RelayNext ==
  \/ \E c \in ConnIds : onConnect(c)
  \/ \E c \in ConnIds : onClose(c)
  \/ \E c \in ConnIds : handleGenerateCode(c)
  \/ \E c \in ConnIds, m \in RelayMessages : onRelay(c, m)

RelaySpec == Init /\ [][RelayNext]_vars

\* Two rooms on one CodeManager, no clock: c1 registers this room and locks
\* itself, c2 joins and sends messages of unknown types, the second room
\* registers its own code.
RoomsNext ==
  \/ \E c \in GateConns : onConnect(c)
  \/ \E c \in GateConns : onClose(c)
  \/ handleGenerateCode("c1")
  \/ \E code \in Codes, role \in Roles : RoomJoin("c2", code, role)
  \/ handleLockConnection("c1", "c1")
  \/ \E c \in GateConns, type \in UnknownTypes : onUnknownMessage(c, type)
  \/ otherGenerateCode

RoomsSpec == Init /\ [][RoomsNext]_vars

\* The locks of two rooms: c1 registers this room and locks itself, c2
\* reconnects with a lock id, the second room mints a lock of its own; the
\* clock in steps of 150 s.
TwoLocksNext ==
  \/ Tick(RoomTickMs, MaxRoomTicks)
  \/ \E c \in GateConns : onConnect(c)
  \/ handleGenerateCode("c1")
  \/ handleLockConnection("c1", "c1")
  \/ \E lockId \in LockIds : handleReconnectWithLock("c2", lockId)
  \/ \E lockId \in LockIds : otherLockConnection(lockId)

TwoLocksSpec == Init /\ [][TwoLocksNext]_vars

\* A lock on somebody else: c1 registers the room, c2 joins, asks for a lock
\* that names c1 and reconnects with it; the clock in steps of 150 s.
ForeignLockNext ==
  \/ Tick(RoomTickMs, MaxRoomTicks)
  \/ \E c \in GateConns : onConnect(c)
  \/ \E c \in GateConns : onClose(c)
  \/ handleGenerateCode("c1")
  \/ \E role \in Roles : RoomJoin("c2", RoomId, role)
  \/ handleLockConnection("c2", "c1")
  \/ \E lockId \in LockIds : handleReconnectWithLock("c2", lockId)

ForeignLockSpec == Init /\ [][ForeignLockNext]_vars

(* ----------------------- client: framing actions ---------------------- *)
\* any chunk the framing is asked to serialize
FrameInit ==
  /\ BrokerIdle
  /\ ChunkIdle
  /\ PipeIdle
  /\ SessionIdle /\ ExtraIdle
  /\ chunk \in FrameChunks
  /\ wire = <<>>
  /\ parsed = NoParse

Serialize ==
  /\ wire' = serializeChunk(chunk)
  /\ UNCHANGED <<chunk, parsed>>
  /\ UNCHANGED <<serverVars, chunkVars, pipe, sessionVars, extraVars>>

\* the datagram loses its last byte: every prefix of a frame is an input
Truncate ==
  /\ wire # <<>>
  /\ wire' = SubSeq(wire, 1, Len(wire) - 1)
  /\ UNCHANGED <<chunk, parsed>>
  /\ UNCHANGED <<serverVars, chunkVars, pipe, sessionVars, extraVars>>

Deserialize ==
  /\ LET r == deserializeChunk(wire)
     IN parsed' = [called |-> TRUE, input |-> wire, ok |-> r.ok, chunk |-> r.chunk]
  /\ UNCHANGED <<chunk, wire>>
  /\ UNCHANGED <<serverVars, chunkVars, pipe, sessionVars, extraVars>>

FrameNext == Serialize \/ Truncate \/ Deserialize

FrameSpec == FrameInit /\ [][FrameNext]_vars

(* --------------------- client: accumulator actions -------------------- *)
\* any file and a fresh ChunkManager of any chunk size
ChunkInit ==
  /\ BrokerIdle
  /\ FrameIdle
  /\ PipeIdle
  /\ SessionIdle /\ ExtraIdle
  /\ file \in Files
  /\ cm \in {newChunkManager(n) : n \in 1..MaxChunkSize}
  /\ arrival = <<>>
  /\ stray = FALSE

\* what can arrive: a chunk of split(file), or a chunk no split produced,
\* with any index up to one that is past every file's last chunk
SplitChunks == {split(file, cm.chunkSize)[k] : k \in DOMAIN split(file, cm.chunkSize)}
StrayChunks == {[index |-> i, data |-> StrayData, size |-> Len(StrayData)] : i \in 0..MaxFileLen}

SetMetadata ==
  /\ cm' = setMetadata(cm, createMetadata(file, cm.chunkSize))
  /\ UNCHANGED <<file, arrival, stray>>
  /\ UNCHANGED <<serverVars, frameVars, pipe, sessionVars, extraVars>>

AddChunk(c) ==
  /\ LET r == addChunk(cm, c)
     IN /\ cm' = r.cm
        /\ arrival' = IF r.ok THEN Append(arrival, c.index) ELSE arrival
  /\ stray' = (stray \/ c \notin SplitChunks)
  /\ UNCHANGED file
  /\ UNCHANGED <<serverVars, frameVars, pipe, sessionVars, extraVars>>

Reset ==
  /\ cm' = reset(cm)
  /\ arrival' = <<>>
  /\ stray' = FALSE
  /\ UNCHANGED file
  /\ UNCHANGED <<serverVars, frameVars, pipe, sessionVars, extraVars>>

ChunkNext ==
  \/ SetMetadata
  \/ \E c \in SplitChunks \cup StrayChunks : AddChunk(c)
  \/ Reset

ChunkSpec == ChunkInit /\ [][ChunkNext]_vars

(* ----------------------- client: pipeline actions --------------------- *)
\* any file, any chunk size, either side compressing or not; the receiver's
\* ChunkManager has the file's metadata (receiverPipeline sets it first)
PipeInit ==
  /\ BrokerIdle
  /\ FrameIdle
  /\ SessionIdle /\ ExtraIdle
  /\ file \in Files
  /\ cm \in {setMetadata(newChunkManager(n), createMetadata(file, n)) : n \in 1..MaxChunkSize}
  /\ arrival = <<>>
  /\ stray = FALSE
  /\ pipe \in {[NoPipe EXCEPT !.supported = p, !.shouldCompress = s, !.isCompressed = r] :
                 p \in BOOLEAN, s \in BOOLEAN, r \in BOOLEAN}

SenderPipeline ==
  /\ ~pipe.sent
  /\ pipe' = [pipe EXCEPT !.sent = TRUE,
                !.serializedChunks =
                   senderPipeline(file, cm.chunkSize, pipe.shouldCompress, pipe.supported)]
  /\ UNCHANGED <<file, cm, arrival, stray>>
  /\ UNCHANGED <<serverVars, frameVars, sessionVars, extraVars>>

\* one turn of receiverPipeline's loop: deserialize -> (decompress) -> addChunk
ReceiverPipeline ==
  /\ pipe.sent /\ ~pipe.failed
  /\ pipe.taken < Len(pipe.serializedChunks)
  /\ LET d == deserializeChunk(pipe.serializedChunks[pipe.taken + 1])
         z == IF pipe.isCompressed THEN decompress(d.chunk.data, pipe.supported)
              ELSE [ok |-> TRUE, data |-> d.chunk.data]
         r == addChunk(cm, [d.chunk EXCEPT !.data = z.data])
     IN IF d.ok /\ z.ok
        THEN /\ cm' = r.cm
             /\ arrival' = IF r.ok THEN Append(arrival, d.chunk.index) ELSE arrival
             /\ pipe' = [pipe EXCEPT !.taken = @ + 1]
        ELSE /\ pipe' = [pipe EXCEPT !.failed = TRUE]
             /\ UNCHANGED <<cm, arrival>>
  /\ UNCHANGED <<file, stray>>
  /\ UNCHANGED <<serverVars, frameVars, sessionVars, extraVars>>

PipeNext == SenderPipeline \/ ReceiverPipeline

PipeSpec == PipeInit /\ [][PipeNext]_vars

(* ------------------------ client: session actions --------------------- *)
\* files in the sender's list, datagrams the receiver takes, peer_joined
\* events that create a data channel
MaxSendFiles == 2
MaxDatagrams == 4
MaxPeerJoined == 1

\* the files a sender is given: contents of one byte value, every length
SendFiles == {f \in Files : \A k \in 1..Len(f.bytes) : f.bytes[k] = 1}

\* what the remote sender can put on the channel: the metadata and the
\* frames of a one-chunk and a two-chunk file, compressed or not, the
\* end-of-transfer message, and a frame that is too short
RecvChunkSize == 1
RecvFiles == {f \in Files : f.bytes \in {<<1>>, <<1, 31>>}}
ShortFrame == <<0>>
Datagrams ==
  {stringData(fileMetadataMessage(f, RecvChunkSize, z), 0) : f \in RecvFiles, z \in BOOLEAN}
    \cup UNION {{binaryData(senderPipeline(f, RecvChunkSize, z, CodecSupported)[k], 0) :
                   k \in DOMAIN senderPipeline(f, RecvChunkSize, z, CodecSupported)} :
                 f \in RecvFiles, z \in BOOLEAN}
    \cup {stringData(transferCompleteMessage, 0), binaryData(ShortFrame, 0)}

\* the handler starts with nothing emitted
quiet(t) == [t EXCEPT !.emitted = <<>>]

SendInit ==
  /\ BrokerIdle /\ FrameIdle /\ ChunkIdle /\ PipeIdle /\ ExtraIdle
  /\ tm \in {newTransferManager(n, z) : n \in 1..MaxChunkSize, z \in BOOLEAN}
  /\ webrtc = newWebRTCConnection
  /\ signaling = "idle"
  /\ loop = NoLoop
  /\ lastMeta = NoMessage
  /\ tev = NoEvent

RecvInit ==
  /\ BrokerIdle /\ FrameIdle /\ ChunkIdle /\ PipeIdle /\ ExtraIdle
  /\ tm = newTransferManager(16 * 1024, TRUE)
  /\ webrtc = newWebRTCConnection
  /\ signaling = "idle"
  /\ loop = NoLoop
  /\ lastMeta = NoMessage
  /\ tev = NoEvent

\* on(event, handler) for every event type
Subscribe ==
  /\ ~tm.eventHandlers
  /\ tm' = [quiet(tm) EXCEPT !.eventHandlers = TRUE]
  /\ tev' = [op |-> "on", before |-> tm.status, kind |-> "none"]
  /\ UNCHANGED <<webrtc, signaling, loop, lastMeta>>
  /\ UNCHANGED <<serverVars, frameVars, chunkVars, pipe, extraVars>>

InitializeAsReceiver ==
  /\ tm.status = "idle"
  /\ tm' = setStatus([setStatus([quiet(tm) EXCEPT !.role = "receiver"], "connecting")
                        EXCEPT !.signalingHandlers = @ + 1], "waiting")
  /\ signaling' = "connected"
  /\ tev' = [op |-> "initializeAsReceiver", before |-> tm.status, kind |-> "none"]
  /\ UNCHANGED <<webrtc, loop, lastMeta>>
  /\ UNCHANGED <<serverVars, frameVars, chunkVars, pipe, extraVars>>

InitializeAsSender(fs) ==
  /\ tm.status = "idle"
  /\ tm' = [setStatus([quiet(tm) EXCEPT !.role = "sender", !.files = fs], "connecting")
              EXCEPT !.signalingHandlers = @ + 1]
  /\ signaling' = "connected"
  /\ tev' = [op |-> "initializeAsSender", before |-> tm.status, kind |-> "none"]
  /\ UNCHANGED <<webrtc, loop, lastMeta>>
  /\ UNCHANGED <<serverVars, frameVars, chunkVars, pipe, extraVars>>

\* the signaling 'peer_joined' handler: the receiver creates the data
\* channel and registers its handlers on every peer_joined of the other role
OnPeerJoinedUpTo(peerRole, maxPeerJoined) ==
  /\ tm.signalingHandlers > 0
  /\ tm.webrtcHandlers < maxPeerJoined
  /\ IF peerRole # tm.role /\ tm.role = "receiver"
     THEN /\ webrtc' = webrtcCreate(webrtc)
          /\ tm' = [quiet(tm) EXCEPT !.webrtcHandlers = @ + 1, !.webrtcCreated = TRUE]
     ELSE /\ tm' = quiet(tm)
          /\ UNCHANGED webrtc
  /\ tev' = [op |-> "peer_joined", before |-> tm.status, kind |-> peerRole]
  /\ UNCHANGED <<signaling, loop, lastMeta>>
  /\ UNCHANGED <<serverVars, frameVars, chunkVars, pipe, extraVars>>

OnPeerJoined(peerRole) == OnPeerJoinedUpTo(peerRole, MaxPeerJoined)

\* the signaling 'webrtc_offer' handler: the sender creates the data channel once
OnWebrtcOffer ==
  /\ tm.signalingHandlers > 0
  /\ IF tm.role = "sender" /\ ~tm.webrtcCreated
     THEN /\ webrtc' = webrtcCreate(webrtc)
          /\ tm' = [quiet(tm) EXCEPT !.webrtcHandlers = @ + 1, !.webrtcCreated = TRUE]
     ELSE /\ tm' = quiet(tm)
          /\ UNCHANGED webrtc
  /\ tev' = [op |-> "webrtc_offer", before |-> tm.status, kind |-> "none"]
  /\ UNCHANGED <<signaling, loop, lastMeta>>
  /\ UNCHANGED <<serverVars, frameVars, chunkVars, pipe, extraVars>>

OnSignalingError ==
  /\ tm.signalingHandlers > 0
  /\ tm' = onSignalingError(quiet(tm))
  /\ tev' = [op |-> "signaling_error", before |-> tm.status, kind |-> "none"]
  /\ UNCHANGED <<webrtc, signaling, loop, lastMeta>>
  /\ UNCHANGED <<serverVars, frameVars, chunkVars, pipe, extraVars>>

\* the loop test of split: is there a chunk with this index.  The faulty
\* variant leaves the last chunk out.
moreChunks_SkipLast(next, totalChunks) == next + 1 < totalChunks

moreChunks(next, totalChunks) == next < totalChunks

\* sendFile up to its first wait: the file_metadata of file k
sendMetadata(t, w, k) ==
  LET f == t.files[k]
      compressed == t.options.enableCompression /\ CodecSupported
                      /\ shouldCompress(Len(f.bytes))
  IN webrtcSend(w, stringData(fileMetadataMessage(f, t.options.chunkSize, compressed), k))

\* the data channel opened: the 'connected' handler.  A sender starts
\* startSending, which runs to the wait after the first file_metadata (or
\* to the end when it has no file).
OnConnected ==
  /\ webrtc.dataChannel = "connecting"
  /\ tm.webrtcHandlers > 0
  /\ LET w == [webrtc EXCEPT !.dataChannel = "open"]
         t == setStatus(quiet(tm), "transferring")
     IN IF tm.role # "sender"
        THEN /\ tm' = twice(LAMBDA x : setStatus(x, "transferring"), tm.webrtcHandlers, quiet(tm))
             /\ webrtc' = w
             /\ UNCHANGED loop
        ELSE IF tm.files = <<>>
        THEN /\ webrtc' = webrtcSend(w, stringData(transferCompleteMessage, 0)).webrtc
             /\ tm' = emit(setStatus(t, "completed"), [type |-> "transfer_complete", data |-> ""])
             /\ loop' = [phase |-> "done", file |-> 0, next |-> 0]
        ELSE /\ webrtc' = sendMetadata(t, w, 1).webrtc
             /\ tm' = t
             /\ loop' = [phase |-> "metadata", file |-> 1, next |-> 0]
  /\ tev' = [op |-> "connected", before |-> tm.status, kind |-> "none"]
  /\ UNCHANGED <<signaling, lastMeta>>
  /\ UNCHANGED <<serverVars, frameVars, chunkVars, pipe, extraVars>>

\* the sender's loop goes on after a wait: the next chunk of the file, or
\* the file_metadata of the next file, or transfer_complete and completed.
\* A send that throws ends the loop (the promise is rejected, nobody
\* handles it).
SenderStep ==
  /\ loop.phase \in {"metadata", "chunks"}
  /\ LET f == tm.files[loop.file]
         chunks == split(f, tm.options.chunkSize)
         compressed == tm.options.enableCompression /\ CodecSupported
                         /\ shouldCompress(Len(f.bytes))
         aborted == [loop EXCEPT !.phase = "aborted"]
     IN IF moreChunks(loop.next, Len(chunks))
        THEN LET c == chunks[loop.next + 1]
                 data == IF compressed THEN compress(c.data, CodecSupported) ELSE c.data
                 r == webrtcSend(webrtc, binaryData(serializeChunk([c EXCEPT !.data = data]),
                                                    loop.file))
             IN /\ webrtc' = r.webrtc
                /\ loop' = IF r.ok THEN [loop EXCEPT !.phase = "chunks", !.next = @ + 1]
                           ELSE aborted
                /\ tm' = quiet(tm)
        ELSE IF loop.file < Len(tm.files)
        THEN LET r == sendMetadata(tm, webrtc, loop.file + 1)
             IN /\ webrtc' = r.webrtc
                /\ loop' = IF r.ok THEN [phase |-> "metadata", file |-> loop.file + 1, next |-> 0]
                           ELSE aborted
                /\ tm' = quiet(tm)
        ELSE LET r == webrtcSend(webrtc, stringData(transferCompleteMessage, 0))
             IN /\ webrtc' = r.webrtc
                /\ loop' = IF r.ok THEN [loop EXCEPT !.phase = "done"] ELSE aborted
                /\ tm' = IF r.ok
                         THEN emit(setStatus(quiet(tm), "completed"),
                                   [type |-> "transfer_complete", data |-> ""])
                         ELSE quiet(tm)
  /\ tev' = [op |-> "sender_step", before |-> tm.status, kind |-> "none"]
  /\ UNCHANGED <<signaling, lastMeta>>
  /\ UNCHANGED <<serverVars, frameVars, chunkVars, pipe, extraVars>>

\* the data channel delivers a datagram: the 'data' handler
OnData(d) ==
  /\ webrtc.dataChannel = "open"
  /\ tm.webrtcHandlers > 0
  /\ webrtc.taken < MaxDatagrams
  /\ webrtc' = [webrtc EXCEPT !.taken = @ + 1]
  /\ tm' = twice(LAMBDA x : handleReceivedData(x, d), tm.webrtcHandlers, quiet(tm))
  /\ lastMeta' = IF d.kind = "string" /\ d.message.type = "file_metadata"
                 THEN d.message ELSE lastMeta
  /\ tev' = [op |-> "data", before |-> tm.status,
             kind |-> IF d.kind = "string" THEN d.message.type
                      ELSE IF Len(d.bytes) < 8 THEN "short" ELSE "chunk"]
  /\ UNCHANGED <<signaling, loop>>
  /\ UNCHANGED <<serverVars, frameVars, chunkVars, pipe, extraVars>>

\* decompress returns for one of the chunks that wait for it
DecompressDone(k) ==
  /\ k \in 1..Len(tm.pending)
  /\ tm' = decompressDone(quiet(tm), k)
  /\ tev' = [op |-> "decompressed", before |-> tm.status, kind |-> "none"]
  /\ UNCHANGED <<webrtc, signaling, loop, lastMeta>>
  /\ UNCHANGED <<serverVars, frameVars, chunkVars, pipe, extraVars>>

\* the data channel or the peer connection reports that it is gone: the
\* 'disconnected' handlers.  The peer connection reports 'disconnected'
\* also while the data channel is still open.
OnWebrtcDisconnected(closes) ==
  /\ webrtc.dataChannel \in {"connecting", "open"}
  /\ tm.webrtcHandlers > 0
  /\ webrtc' = IF closes THEN [webrtc EXCEPT !.dataChannel = "closed"] ELSE webrtc
  /\ tm' = twice(onWebrtcDisconnected, tm.webrtcHandlers, quiet(tm))
  /\ tev' = [op |-> "disconnected", before |-> tm.status, kind |-> "none"]
  /\ UNCHANGED <<signaling, loop, lastMeta>>
  /\ UNCHANGED <<serverVars, frameVars, chunkVars, pipe, extraVars>>

\* the data channel or the peer connection reports an error: the 'error' handlers
OnWebrtcError(closes) ==
  /\ webrtc.dataChannel \in {"connecting", "open"}
  /\ tm.webrtcHandlers > 0
  /\ webrtc' = IF closes THEN [webrtc EXCEPT !.dataChannel = "closed"] ELSE webrtc
  /\ tm' = twice(onWebrtcError, tm.webrtcHandlers, quiet(tm))
  /\ tev' = [op |-> "error", before |-> tm.status, kind |-> "none"]
  /\ UNCHANGED <<signaling, loop, lastMeta>>
  /\ UNCHANGED <<serverVars, frameVars, chunkVars, pipe, extraVars>>

\* cancel(): setStatus('cancelled'), then cleanup()
Cancel ==
  /\ tm' = cleanup(setStatus(quiet(tm), "cancelled"))
  /\ webrtc' = destroy(webrtc)
  /\ signaling' = "disconnected"
  /\ tev' = [op |-> "cancel", before |-> tm.status, kind |-> "none"]
  /\ UNCHANGED <<loop, lastMeta>>
  /\ UNCHANGED <<serverVars, frameVars, chunkVars, pipe, extraVars>>

SendNext ==
  \/ Subscribe
  \/ \E fs \in SeqsUpTo(SendFiles, MaxSendFiles) : InitializeAsSender(fs)
  \/ \E peerRole \in Roles : OnPeerJoined(peerRole)
  \/ OnWebrtcOffer
  \/ OnSignalingError
  \/ OnConnected
  \/ SenderStep
  \/ \E closes \in BOOLEAN : OnWebrtcDisconnected(closes)
  \/ \E closes \in BOOLEAN : OnWebrtcError(closes)
  \/ Cancel

SendSpec == SendInit /\ [][SendNext]_vars

RecvNext ==
  \/ Subscribe
  \/ InitializeAsReceiver
  \/ \E peerRole \in Roles : OnPeerJoined(peerRole)
  \/ OnWebrtcOffer
  \/ OnSignalingError
  \/ OnConnected
  \/ \E d \in Datagrams : OnData(d)
  \/ \E k \in 1..MaxDatagrams : DecompressDone(k)
  \/ \E closes \in BOOLEAN : OnWebrtcDisconnected(closes)
  \/ \E closes \in BOOLEAN : OnWebrtcError(closes)
  \/ Cancel

RecvSpec == RecvInit /\ [][RecvNext]_vars

(* ------------- client: a receiver that sees peers join again ---------- *)
\* A receiver whose room announces a sender more than once (the sender
\* joins again).  Nobody cancels and nothing fails: no signaling error, no
\* channel error or loss, only datagrams a sender's sendFile produces.
MaxRejoins == 2

RejoinNext ==
  \/ Subscribe
  \/ InitializeAsReceiver
  \/ \E peerRole \in Roles : OnPeerJoinedUpTo(peerRole, MaxRejoins)
  \/ OnWebrtcOffer
  \/ OnConnected
  \/ \E d \in Datagrams \ {binaryData(ShortFrame, 0)} : OnData(d)
  \/ \E k \in 1..MaxDatagrams : DecompressDone(k)

RejoinSpec == RecvInit /\ [][RejoinNext]_vars

(* --------------- client: a sender and the receiver it feeds ----------- *)
\* The sender session of the sender specification, and at the other end
\* of its data channel a receiving session that takes the datagrams in the
\* order they were sent.  The channel stays open, nobody cancels.  The
\* files are shorter than 10 KiB, so the sender compresses none of them.

\* the receiver's TransferManager after on(..), initializeAsReceiver() and
\* the peer_joined of the sender
receiverWaiting ==
  [quiet(setStatus(setStatus([newTransferManager(16 * 1024, TRUE)
                                EXCEPT !.role = "receiver", !.eventHandlers = TRUE],
                             "connecting"), "waiting"))
     EXCEPT !.signalingHandlers = 1, !.webrtcHandlers = 1, !.webrtcCreated = TRUE]

\* the files of the file_received events among emitted events
filesReceived(emitted) ==
  LET evs == SelectSeq(emitted, LAMBDA e : e.type = "file_received")
  IN [k \in DOMAIN evs |-> evs[k].data]

LinkInit ==
  /\ BrokerIdle /\ FrameIdle /\ ChunkIdle /\ PipeIdle
  /\ GenIdle /\ SigIdle /\ IceIdle /\ OtherIdle /\ BigIdle
  /\ tm \in {newTransferManager(n, z) : n \in 1..MaxChunkSize, z \in BOOLEAN}
  /\ webrtc = newWebRTCConnection
  /\ signaling = "idle"
  /\ loop = NoLoop
  /\ lastMeta = NoMessage
  /\ tev = NoEvent
  /\ peer = [NoPeer EXCEPT !.tm = receiverWaiting]

\* the receiver's end of the data channel opens: its 'connected' handler
PeerConnected ==
  /\ webrtc.dataChannel # "none"
  /\ ~peer.connected
  /\ peer' = [peer EXCEPT !.connected = TRUE,
                !.tm = setStatus(quiet(@), "transferring")]
  /\ UNCHANGED <<serverVars, frameVars, chunkVars, pipe, sessionVars,
                 gen, sc, rtc, other, big>>

\* the receiver's end delivers the next datagram: its 'data' handler
PeerData ==
  /\ peer.connected
  /\ peer.taken < Len(webrtc.out)
  /\ LET t == handleReceivedData(quiet(peer.tm), webrtc.out[peer.taken + 1])
     IN peer' = [peer EXCEPT !.tm = t, !.taken = @ + 1,
                   !.received = @ \o filesReceived(t.emitted)]
  /\ UNCHANGED <<serverVars, frameVars, chunkVars, pipe, sessionVars,
                 gen, sc, rtc, other, big>>

LinkNext ==
  \/ \E fs \in SeqsUpTo(SendFiles, MaxSendFiles) : InitializeAsSender(fs)
  \/ OnWebrtcOffer
  \/ OnConnected
  \/ SenderStep
  \/ PeerConnected
  \/ PeerData

LinkSpec == LinkInit /\ [][LinkNext]_vars

\* every handler that can run does run
LinkLive ==
  /\ LinkSpec
  /\ WF_vars(\E fs \in SeqsUpTo(SendFiles, MaxSendFiles) : InitializeAsSender(fs))
  /\ WF_vars(OnWebrtcOffer /\ webrtc' # webrtc)
  /\ WF_vars(OnConnected)
  /\ WF_vars(SenderStep)
  /\ WF_vars(PeerConnected)
  /\ WF_vars(PeerData)

(* ------------- client: a receiver on a sender's whole output ---------- *)
\* The receiving session takes, in order, what a sender puts on the
\* channel for a list of files: per file its file_metadata and the frames
\* of senderPipeline, then transfer_complete.  A file's compressed flag is
\* the sender's choice; decompress of a chunk returns at any later time.
MaxStreamFiles == 2

\* what sendFile puts on the channel for file k of the list
fileStream(f, chunkSize, compressed, k) ==
  <<stringData(fileMetadataMessage(f, chunkSize, compressed), k)>>
    \o [i \in DOMAIN senderPipeline(f, chunkSize, compressed, CodecSupported) |->
          binaryData(senderPipeline(f, chunkSize, compressed, CodecSupported)[i], k)]

\* what startSending puts on the channel
RECURSIVE filesStream(_, _, _, _)
filesStream(fs, flags, chunkSize, k) ==
  IF k > Len(fs) THEN <<stringData(transferCompleteMessage, 0)>>
  ELSE fileStream(fs[k], chunkSize, flags[k], k) \o filesStream(fs, flags, chunkSize, k + 1)

StreamInit ==
  /\ BrokerIdle /\ FrameIdle /\ ChunkIdle /\ PipeIdle
  /\ GenIdle /\ SigIdle /\ IceIdle /\ OtherIdle /\ BigIdle
  /\ tm = newTransferManager(1, FALSE)
  /\ signaling = "idle"
  /\ loop = NoLoop
  /\ lastMeta = NoMessage
  /\ tev = NoEvent
  /\ \E n \in 0..MaxStreamFiles :
       \E fs \in [1..n -> RecvFiles], flags \in [1..n -> BOOLEAN] :
         /\ webrtc = [newWebRTCConnection EXCEPT !.dataChannel = "open",
                        !.out = filesStream(fs, flags, RecvChunkSize, 1)]
         /\ peer = [NoPeer EXCEPT !.tm = receiverWaiting, !.channelFiles = fs,
                                  !.channelFlags = flags]

\* decompress returns for one of the receiver's chunks that wait for it
PeerDecompressDone(k) ==
  /\ k \in 1..Len(peer.tm.pending)
  /\ LET t == decompressDone(quiet(peer.tm), k)
     IN peer' = [peer EXCEPT !.tm = t, !.received = @ \o filesReceived(t.emitted)]
  /\ UNCHANGED <<serverVars, frameVars, chunkVars, pipe, sessionVars,
                 gen, sc, rtc, other, big>>

StreamNext ==
  \/ PeerConnected
  \/ PeerData
  \/ \E k \in 1..(MaxStreamFiles * MaxFileLen) : PeerDecompressDone(k)

StreamSpec == StreamInit /\ [][StreamNext]_vars

(* ------------------------ CodeManager: generator ---------------------- *)
\* ticks of RoomTickMs the clock of the generator specification makes
MaxGenTicks == 3

\* the numbers Math.floor(Math.random() * 10000) takes here, and the pass of
\* the loop from which the draw changes
RandomNums == {7, RandomCodeRange - 1}
DrawSwitch == {0, 1, maxAttempts, 2 * maxAttempts - 1}
Draws ==
  {[k \in 1..(2 * maxAttempts) |-> IF k <= n THEN a ELSE b] :
     n \in DrawSwitch, a \in RandomNums, b \in RandomNums}
GenCodes == {generateRandomCode(num) : num \in RandomNums}

GenInit ==
  /\ BrokerIdle /\ FrameIdle /\ ChunkIdle /\ PipeIdle /\ SessionIdle
  /\ ExtraIdle

GenTick ==
  /\ gen.now < MaxGenTicks * RoomTickMs
  /\ gen' = [gen EXCEPT !.now = @ + RoomTickMs, !.op = "tick"]
  /\ UNCHANGED <<serverVars, frameVars, chunkVars, pipe, sessionVars, sc, rtc, other, big, peer>>

RegisterCode(code) ==
  /\ gen' = [gen EXCEPT !.activeCodes = registerCode(@, code, "c1", gen.now),
                        !.op = "registerCode"]
  /\ UNCHANGED <<serverVars, frameVars, chunkVars, pipe, sessionVars, sc, rtc, other, big, peer>>

GenerateCode(draws) ==
  /\ LET r == generateCode(gen.activeCodes, draws, gen.now)
     IN gen' = [gen EXCEPT !.activeCodes = r.codes, !.code = r.code,
                           !.attempts = r.attempts, !.op = "generateCode"]
  /\ UNCHANGED <<serverVars, frameVars, chunkVars, pipe, sessionVars, sc, rtc, other, big, peer>>

GenNext ==
  \/ GenTick
  \/ \E code \in GenCodes : RegisterCode(code)
  \/ \E draws \in Draws : GenerateCode(draws)

GenSpec == GenInit /\ [][GenNext]_vars

(* ----------------------- SignalingClient: reconnect ------------------- *)
\* ticks of SigTickMs the clock of the reconnect specification makes
MaxSigTicks == 15
\* sockets closed by disconnect() whose onclose is still to come
MaxClosing == 1
SigTickMs == 1 * 1000

SigInit ==
  /\ BrokerIdle /\ FrameIdle /\ ChunkIdle /\ PipeIdle /\ SessionIdle
  /\ ExtraIdle

SigTick ==
  /\ sc.now < MaxSigTicks * SigTickMs
  /\ sc' = [sc EXCEPT !.now = @ + SigTickMs, !.op = "tick"]
  /\ UNCHANGED <<serverVars, frameVars, chunkVars, pipe, sessionVars, gen, rtc, other, big, peer>>

\* connect(roomId) called by the session
SigConnect ==
  /\ sc.socket = "none"
  /\ sc' = [connect(sc, RoomId) EXCEPT !.op = "connect"]
  /\ UNCHANGED <<serverVars, frameVars, chunkVars, pipe, sessionVars, gen, rtc, other, big, peer>>

\* socket.onopen
SocketOpen ==
  /\ sc.socket = "connecting"
  /\ sc' = [sc EXCEPT !.socket = "open", !.reconnectAttempts = 0,
                      !.delays = <<>>, !.op = "open"]
  /\ UNCHANGED <<serverVars, frameVars, chunkVars, pipe, sessionVars, gen, rtc, other, big, peer>>

\* socket.onclose of a socket the client did not close itself
SocketClose ==
  /\ sc.socket \in {"connecting", "open"}
  /\ sc' = [handleReconnect([sc EXCEPT !.socket = "closed"]) EXCEPT !.op = "close"]
  /\ UNCHANGED <<serverVars, frameVars, chunkVars, pipe, sessionVars, gen, rtc, other, big, peer>>

\* the setTimeout callback of handleReconnect
ReconnectTimer ==
  /\ sc.timer # Null
  /\ sc.now >= sc.timer
  /\ sc' = [(IF sc.roomId # NoId THEN connect(sc, sc.roomId) ELSE sc)
              EXCEPT !.timer = Null, !.op = "timer"]
  /\ UNCHANGED <<serverVars, frameVars, chunkVars, pipe, sessionVars, gen, rtc, other, big, peer>>

\* disconnect(): the socket is closed by the client and forgotten
SigDisconnect ==
  /\ sc.socket # "none"
  /\ sc.socket \in {"connecting", "open"} => sc.closing < MaxClosing
  /\ sc' = [disconnect(sc) EXCEPT !.op = "disconnect"]
  /\ UNCHANGED <<serverVars, frameVars, chunkVars, pipe, sessionVars, gen, rtc, other, big, peer>>

\* socket.onclose of a socket that disconnect() closed
SocketClosed ==
  /\ sc.closing > 0
  /\ sc' = [handleReconnect([sc EXCEPT !.closing = @ - 1]) EXCEPT !.op = "closed"]
  /\ UNCHANGED <<serverVars, frameVars, chunkVars, pipe, sessionVars, gen, rtc, other, big, peer>>

SigNext ==
  \/ SigTick
  \/ SigConnect
  \/ SocketOpen
  \/ SocketClose
  \/ ReconnectTimer
  \/ SigDisconnect
  \/ SocketClosed

SigSpec == SigInit /\ [][SigNext]_vars

(* -------------------- WebRTCConnection: signal() ---------------------- *)
\* candidates and remote descriptions passed to signal() in one run
MaxCandidates == 3
MaxDescriptions == 2

IceInit ==
  /\ BrokerIdle /\ FrameIdle /\ ChunkIdle /\ PipeIdle /\ SessionIdle
  /\ ExtraIdle

\* create(config)
IceCreate ==
  /\ ~rtc.pc
  /\ rtc' = [rtc EXCEPT !.pc = TRUE, !.op = "create"]
  /\ UNCHANGED <<serverVars, frameVars, chunkVars, pipe, sessionVars, gen, sc, other, big, peer>>

SignalDescription ==
  /\ rtc.pc
  /\ Len(rtc.tasks) < MaxDescriptions
  /\ rtc' = [signalDescription(rtc) EXCEPT !.op = "description"]
  /\ UNCHANGED <<serverVars, frameVars, chunkVars, pipe, sessionVars, gen, sc, other, big, peer>>

SignalCandidate ==
  /\ rtc.pc
  /\ rtc.given < MaxCandidates
  /\ rtc' = [signalCandidate(rtc, rtc.given + 1) EXCEPT !.given = @ + 1, !.op = "candidate"]
  /\ UNCHANGED <<serverVars, frameVars, chunkVars, pipe, sessionVars, gen, sc, other, big, peer>>

\* setRemoteDescription is refused (ok = FALSE) or done; addIceCandidate is
\* done, or refused and the refusal caught inside the loop
Resolved(ok) ==
  /\ rtc.chain # <<>>
  /\ rtc' = [resolved(rtc, ok) EXCEPT !.op = "resolved"]
  /\ UNCHANGED <<serverVars, frameVars, chunkVars, pipe, sessionVars, gen, sc, other, big, peer>>

IceNext ==
  \/ IceCreate
  \/ SignalDescription
  \/ SignalCandidate
  \/ \E ok \in BOOLEAN : Resolved(ok)

IceSpec == IceInit /\ [][IceNext]_vars

(* --------------------- client: sendFile by file size ------------------ *)
\* options.chunkSize ?? 16 * 1024
DefaultChunkSize == 16 * 1024
BigChunkSize == 32 * 1024 * 1024

\* file sizes around the two limits of shouldCompress
BigSizes ==
  {0, 1, minSizeForCompression - 1, minSizeForCompression, minSizeForCompression + 1,
   maxSizeForCompression - 1, maxSizeForCompression, maxSizeForCompression + 1}

\* file.slice(start, end) read into a Uint8Array, and its byteLength
slice(start, end) == [start |-> start, end |-> end, gzip |-> FALSE]
byteLength(data) == data.end - data.start

\* compress on a payload given as a slice: the payload itself when the
\* platform has no CompressionStream
compressSlice(data, supported) ==
  IF ~supported THEN data ELSE [data EXCEPT !.gzip = TRUE]

\* chunk i of split(file)
splitChunk(size, chunkSize, i) ==
  LET start == i * chunkSize
      end == IF start + chunkSize < size THEN start + chunkSize ELSE size
      data == slice(start, end)
  IN [index |-> i, data |-> data, size |-> byteLength(data)]

totalChunks(size, chunkSize) == (size + chunkSize - 1) \div chunkSize

\* sendFile's shouldCompress constant
sendFileCompressed(enableCompression, supported, size) ==
  enableCompression /\ supported /\ shouldCompress(size)

BigInit ==
  /\ BrokerIdle
  /\ FrameIdle
  /\ ChunkIdle
  /\ PipeIdle
  /\ SessionIdle
  /\ GenIdle /\ SigIdle /\ IceIdle /\ OtherIdle /\ PeerIdle
  /\ big \in {[NoBig EXCEPT !.size = n, !.enableCompression = e, !.chunkSize = k,
                            !.supported = p] :
                n \in BigSizes, e \in BOOLEAN, k \in {DefaultChunkSize, BigChunkSize},
                p \in BOOLEAN}

\* sendFile up to its first wait: the file_metadata message with its flag
BigSendFile ==
  /\ big.phase = "idle"
  /\ big' = [big EXCEPT !.phase = "chunks",
               !.compressed = sendFileCompressed(big.enableCompression, big.supported,
                                                 big.size)]
  /\ UNCHANGED <<serverVars, frameVars, chunkVars, pipe, sessionVars, gen, sc, rtc, other, peer>>

\* one turn of sendFile's loop: the next chunk is compressed if the flag
\* says so, serialized with the size split gave it, and sent
BigSendChunk ==
  /\ big.phase = "chunks"
  /\ big.next < totalChunks(big.size, big.chunkSize)
  /\ LET c == splitChunk(big.size, big.chunkSize, big.next)
         data == IF big.compressed THEN compressSlice(c.data, big.supported) ELSE c.data
     IN big' = [big EXCEPT !.next = @ + 1,
                  !.sent = [header |-> setUint32(c.index) \o setUint32(c.size),
                            data |-> data]]
  /\ UNCHANGED <<serverVars, frameVars, chunkVars, pipe, sessionVars, gen, sc, rtc, other, peer>>

BigNext == BigSendFile \/ BigSendChunk

BigSpec == BigInit /\ [][BigNext]_vars

Next == GateNext \/ RoomNext \/ LockNext \/ RelayNext \/ FrameNext \/ ChunkNext \/ PipeNext \/ SendNext \/ RecvNext
          \/ GenNext \/ SigNext \/ IceNext \/ RoomsNext \/ TwoLocksNext \/ BigNext \/ RejoinNext \/ LinkNext \/ StreamNext \/ ForeignLockNext
Spec == Init /\ [][Next]_vars

(* ============================== claims ================================ *)

\* the attempts the rate-limit bucket of key k holds in the window that is
\* current at time t (a bucket whose window has passed counts for nothing)
AttemptCount(rl, k, t) ==
  IF k \in DOMAIN rl /\ t - rl[k].windowStart <= RATE_LIMIT_WINDOW_MS
  THEN rl[k].attempts ELSE 0

\* the consecutive failures recorded for key k at time t (a lockout record
\* whose lockout has run out counts for nothing)
FailCount(lo, k, t) ==
  IF k \in DOMAIN lo /\ ~(lo[k].lockedUntil # Null /\ t > lo[k].lockedUntil)
  THEN lo[k].failedAttempts ELSE 0

\* key k is inside a lockout at time t
Locked(lo, k, t) ==
  k \in DOMAIN lo /\ lo[k].lockedUntil # Null /\ t <= lo[k].lockedUntil

\* key k carries a lockout record whose lockout has run out
LockoutOver(lo, k, t) ==
  k \in DOMAIN lo /\ lo[k].lockedUntil # Null /\ t > lo[k].lockedUntil

RateLimitedReply == <<errorMessage("RATE_LIMITED", "Too many failed attempts")>>

\* C1: in every reachable state the peers map of the room holds at most 2
\* entries; a connection that opens while 2 others are in the room is
\* answered ROOM_FULL and closed, and such a rejected connection is never
\* registered as a peer, whatever messages it sends.
C1_AtMostTwoPeers ==
  /\ Cardinality(DOMAIN peers) <= MAX_ROOM_CONNECTIONS
  /\ \A c \in ConnIds : conn[c] = "closing" => c \notin DOMAIN peers
  /\ (ev.op = "connect" /\ Cardinality(getConnections(conn) \ {ev.c}) >= 2)
        => (ev.res = "ROOM_FULL" /\ conn[ev.c] = "closing")

\* C1, the part the code keeps: the third connection is answered ROOM_FULL
\* and closed, and no more than 2 connections are ever open (not closing).
C1_ThirdConnectRejected ==
  /\ Cardinality({c \in ConnIds : conn[c] = "open"}) <= MAX_ROOM_CONNECTIONS
  /\ (ev.op = "connect" /\ Cardinality(getConnections(conn) \ {ev.c}) >= 2)
        => /\ ev.res = "ROOM_FULL"
           /\ conn[ev.c] = "closing"
           /\ sent[ev.c] = <<errorMessage("ROOM_FULL", "This transfer room is full")>>

\* the step just taken handled a join_room of key k
JoinStep(k) == ev'.op = "join_room" /\ ev'.c = k

\* C2: the third consecutive failed join_room of key k locks k out for the
\* following 300 s; while the lockout lasts nothing clears it and every
\* join_room of k is answered RATE_LIMITED, even with a valid code, and
\* registers nobody; a success removes the lockout record, and one failure
\* after it does not lock; once more than 300 s have passed a join_room
\* with a valid code succeeds and removes the lockout record.
C2_Step ==
  \A k \in ConnIds :
    /\ (JoinStep(k) /\ ev'.res = "INVALID_CODE" /\ FailCount(lockouts, k, now) = 2)
          => /\ Locked(lockouts', k, now')
             /\ lockouts'[k].lockedUntil = now + 300000
             /\ isLockedOut(lockouts', k, now').locked
    /\ (JoinStep(k) /\ ev'.res = "INVALID_CODE" /\ FailCount(lockouts, k, now) < 2)
          => /\ ~Locked(lockouts', k, now')
             /\ ~isLockedOut(lockouts', k, now').locked
    /\ (Locked(lockouts, k, now) /\ now' <= lockouts[k].lockedUntil)
          => /\ Locked(lockouts', k, now')
             /\ lockouts'[k] = lockouts[k]
             /\ isLockedOut(lockouts', k, now').locked
    /\ (JoinStep(k) /\ Locked(lockouts, k, now))
          => /\ ev'.res = "LOCKED_OUT"
             /\ sent'[k] = RateLimitedReply
             /\ peers' = peers
    /\ (JoinStep(k) /\ ev'.res = "JOINED")
          => /\ k \notin DOMAIN lockouts'
             /\ ~isLockedOut(lockouts', k, now').locked
    /\ (JoinStep(k) /\ LockoutOver(lockouts, k, now)
          /\ validateCode(activeCodes, ev'.code, now).ok)
          => /\ ev'.res = "JOINED"
             /\ k \notin DOMAIN lockouts'

C2_Lockout == [][C2_Step]_vars

\* C2 witness: at the last instant of a lockout a join_room with a valid
\* code was answered RATE_LIMITED.
C2_Witness ==
  /\ ev.op = "join_room" /\ ev.res = "LOCKED_OUT"
  /\ validateCode(activeCodes, ev.code, now).ok
  /\ now = lockouts[ev.c].lockedUntil
  /\ sent[ev.c] = RateLimitedReply

\* the lockout has run out and a join_room with a valid code then succeeded
\* (reachability of the last case of C2)
C2_AfterLockoutJoined ==
  /\ ev.op = "join_room" /\ ev.res = "JOINED"
  /\ now > LOCKOUT_DURATION_MS
  /\ AttemptCount(rateLimits, ev.c, now) = 1
  /\ ev.c \notin DOMAIN lockouts

\* C3: for every key k, checkRateLimit(k) is true exactly while fewer than
\* 10 attempts are recorded in the current 60 s window, so it is false
\* after exactly 10; the count never passes 10; once the window boundary is
\* crossed checkRateLimit(k) is true again; every recorded attempt adds
\* exactly one, and the one recorded with no current window starts a new
\* window at the current time with a count of 1.
C3_State ==
  \A k \in ConnIds :
    /\ checkRateLimit(rateLimits, k, now).ok = (AttemptCount(rateLimits, k, now) < 10)
    /\ AttemptCount(rateLimits, k, now) <= 10
    /\ (k \in DOMAIN rateLimits /\ now - rateLimits[k].windowStart > 60000)
          => checkRateLimit(rateLimits, k, now).ok

C3_Step ==
  \A k \in ConnIds :
    /\ (JoinStep(k) /\ ev'.res \in {"INVALID_CODE", "JOINED"})
          => /\ AttemptCount(rateLimits', k, now') = AttemptCount(rateLimits, k, now) + 1
             /\ (AttemptCount(rateLimits, k, now) = 0
                   => rateLimits'[k] = [attempts |-> 1, windowStart |-> now])
             /\ (AttemptCount(rateLimits, k, now) > 0
                   => rateLimits'[k].windowStart = rateLimits[k].windowStart)
    /\ (JoinStep(k) /\ ev'.res = "RATE_LIMIT")
          => AttemptCount(rateLimits, k, now) = 10
    /\ (JoinStep(k) /\ ~Locked(lockouts, k, now) /\ AttemptCount(rateLimits, k, now) = 10)
          => ev'.res = "RATE_LIMIT"
    /\ (~JoinStep(k) /\ k \in DOMAIN rateLimits)
          => (k \in DOMAIN rateLimits' /\ rateLimits'[k] = rateLimits[k])

C3_RateLimit == [][C3_State /\ C3_State' /\ C3_Step]_vars

\* C3 witness: 10 attempts are recorded in the current window and the 11th
\* join_room was refused.
C3_Witness ==
  /\ ev.op = "join_room" /\ ev.res = "RATE_LIMIT"
  /\ rateLimits[ev.c].attempts = 10
  /\ ~checkRateLimit(rateLimits, ev.c, now).ok

\* a window was crossed with 10 attempts recorded and the next attempt
\* started a new window (reachability of the last case of C3)
C3_NewWindowStarted ==
  /\ ev.op = "join_room" /\ ev.res \in {"INVALID_CODE", "JOINED"}
  /\ now > 0
  /\ rateLimits[ev.c] = [attempts |-> 1, windowStart |-> now]

\* a join_room got as far as validateCode
Validated == ev.op = "join_room" /\ ev.res \in {"INVALID_CODE", "JOINED"}

\* C4 as stated: validateCode(c) is false for every code c that is not
\* registered and for every registered c from now = created_at(c) + 300 s
\* on, and a call that finds c expired removes it.
C4_AsStated ==
  Validated =>
    /\ ev.createdAt = Null => ev.res = "INVALID_CODE"
    /\ (ev.createdAt # Null /\ now >= ev.createdAt + 300000)
          => (ev.res = "INVALID_CODE" /\ ev.code \notin DOMAIN activeCodes)

\* C4 amended: validateCode(c) is false for every code c that is not
\* registered and for every registered c at every time now > created_at(c)
\* + 300 s, and such a call removes c; up to and including created_at(c) +
\* 300 s a registered c validates and stays registered.
C4_Validate ==
  Validated =>
    /\ ev.createdAt = Null => ev.res = "INVALID_CODE"
    /\ (ev.createdAt # Null /\ now > ev.createdAt + 300000)
          => (ev.res = "INVALID_CODE" /\ ev.code \notin DOMAIN activeCodes)
    /\ (ev.createdAt # Null /\ now <= ev.createdAt + 300000)
          => (ev.res = "JOINED" /\ ev.code \in DOMAIN activeCodes
              /\ activeCodes[ev.code].createdAt = ev.createdAt)

\* C4 witness: a join_room found its code registered but expired, refused
\* it and evicted it.
C4_Witness ==
  /\ Validated /\ ev.res = "INVALID_CODE"
  /\ ev.createdAt # Null /\ now > ev.createdAt + 300000
  /\ ev.code \notin DOMAIN activeCodes

\* C5: join_room runs the gate in the order isLockedOut, checkRateLimit,
\* recordAttempt, validateCode.  A join_room of key k is refused as locked
\* out exactly when k is locked, as rate limited exactly when k is not
\* locked and has 10 attempts in the window, and answered INVALID_CODE
\* exactly when it passed both and its code does not validate.  A refusal
\* RATE_LIMITED leaves k's attempt count and failure count unchanged and
\* registers no peer; INVALID_CODE adds exactly 1 to the attempt count and
\* exactly 1 to the failure count and registers no peer; a success adds 1
\* to the attempt count and clears the lockout record.
C5_Step ==
  \A k \in ConnIds :
    JoinStep(k) =>
      LET locked == Locked(lockouts, k, now)
          full == AttemptCount(rateLimits, k, now) >= 10
          valid == validateCode(activeCodes, ev'.code, now).ok
          attempts == AttemptCount(rateLimits, k, now)
          attemptsAfter == AttemptCount(rateLimits', k, now')
          failures == FailCount(lockouts, k, now)
          failuresAfter == FailCount(lockouts', k, now')
      IN /\ (ev'.res = "LOCKED_OUT") = locked
         /\ (ev'.res = "RATE_LIMIT") = (~locked /\ full)
         /\ (ev'.res = "INVALID_CODE") = (~locked /\ ~full /\ ~valid)
         /\ (ev'.res = "JOINED") = (~locked /\ ~full /\ valid)
         /\ ev'.res \in {"LOCKED_OUT", "RATE_LIMIT"}
              => /\ sent'[k][1].code = "RATE_LIMITED"
                 /\ attemptsAfter = attempts
                 /\ failuresAfter = failures
                 /\ peers' = peers
                 /\ activeCodes' = activeCodes
         /\ ev'.res = "INVALID_CODE"
              => /\ sent'[k][1].code = "INVALID_CODE"
                 /\ attemptsAfter = attempts + 1
                 /\ failuresAfter = failures + 1
                 /\ peers' = peers
         /\ ev'.res = "JOINED"
              => /\ attemptsAfter = attempts + 1
                 /\ k \notin DOMAIN lockouts'
                 /\ failuresAfter = 0

C5_GateOrder == [][C5_Step]_vars

\* C5 witness: a join_room was refused by the rate limit while the key had
\* failures on record, and the 10 attempts and the failures are still there.
C5_Witness ==
  /\ ev.op = "join_room" /\ ev.res = "RATE_LIMIT"
  /\ AttemptCount(rateLimits, ev.c, now) = 10
  /\ FailCount(lockouts, ev.c, now) = 2
  /\ sent[ev.c] = <<errorMessage("RATE_LIMITED", "Too many requests")>>

\* the peer_joined messages among the messages of one connection
PeerJoinedIn(msgs) == {i \in 1..Len(msgs) : msgs[i].type = "peer_joined"}

\* C10: a join_room that passes the gate (key not locked out, fewer than
\* 10 attempts in the window, code valid) registers the sending connection
\* as a peer with the role it declared, and exactly one peer_joined with
\* its connection id and that role goes to every connection of the room,
\* the joiner included, and to nobody else; a join_room the gate refuses
\* sends no peer_joined to anyone and registers nobody.
C10_State ==
  ev.op = "join_room" =>
    IF ev.res = "JOINED"
    THEN /\ ev.c \in DOMAIN peers
         /\ peers[ev.c].connectionId = ev.c
         /\ peers[ev.c].role = ev.role
         /\ ev.c \in getConnections(conn)
         /\ \A x \in ConnIds :
              IF x \in getConnections(conn)
              THEN /\ Len(sent[x]) = 1
                   /\ sent[x][1].type = "peer_joined"
                   /\ sent[x][1].peerId = ev.c
                   /\ sent[x][1].role = ev.role
              ELSE sent[x] = <<>>
    ELSE \A x \in ConnIds : PeerJoinedIn(sent[x]) = {}

C10_Step ==
  \A k \in ConnIds :
    JoinStep(k) =>
      /\ (~Locked(lockouts, k, now) /\ AttemptCount(rateLimits, k, now) < 10
            /\ validateCode(activeCodes, ev'.code, now).ok)
           => ev'.res = "JOINED"
      /\ ev'.res # "JOINED" => peers' = peers

C10_JoinBroadcast == [][C10_State' /\ C10_Step]_vars

\* C10 witness: a join_room declaring the role receiver passed the gate
\* while the other connection was open; both got the peer_joined.
C10_Witness ==
  /\ ev.op = "join_room" /\ ev.res = "JOINED" /\ ev.role = "receiver"
  /\ Cardinality(getConnections(conn)) = 2
  /\ \A x \in getConnections(conn) : Len(sent[x]) = 1
  /\ peers[ev.c].role = "receiver"

\* the lock ids already minted whose lock has been taken out of the room
\* again (only a reconnect_with_lock that found the lock removes one)
Consumed(lk, next) == {l \in 1..(next - 1) : l \notin DOMAIN lk}

\* the step just taken handled a reconnect_with_lock
ReconnectStep == ev'.op = "reconnect_with_lock"

\* C6: a lock is single-use.  A reconnect_with_lock that finds the lock
\* removes it, whether it succeeds or is answered LOCK_EXPIRED; a lock once
\* removed never comes back; a reconnect_with_lock naming a removed lock is
\* answered LOCK_NOT_FOUND and changes no peer; so a reconnect_with_lock is
\* answered peer_joined only when it finds the lock, at most once per lock.
C6_Step ==
  /\ \A l \in Consumed(locks, nextLock) : l \in Consumed(locks', nextLock')
  /\ ReconnectStep =>
       LET l == ev'.lockId IN
       /\ l \in DOMAIN locks
            => /\ ev'.res \in {"RECONNECTED", "LOCK_EXPIRED"}
               /\ l \in Consumed(locks', nextLock')
       /\ l \notin DOMAIN locks
            => /\ ev'.res = "LOCK_NOT_FOUND"
               /\ sent'[ev'.c] = <<errorMessage("LOCK_NOT_FOUND", "Lock not found")>>
               /\ peers' = peers
               /\ locks' = locks
       /\ ev'.res = "RECONNECTED"
            => (l \in DOMAIN locks /\ sent'[ev'.c][1].type = "peer_joined")
       /\ ev'.res # "RECONNECTED"
            => \A x \in ConnIds : PeerJoinedIn(sent'[x]) = {}

C6_SingleUse == [][C6_Step]_vars

\* C6 witness: a reconnect_with_lock named a lock that an earlier
\* reconnect_with_lock had used, and was answered LOCK_NOT_FOUND.
C6_Witness ==
  /\ ev.op = "reconnect_with_lock" /\ ev.res = "LOCK_NOT_FOUND"
  /\ ev.lockId \in Consumed(locks, nextLock)

\* C7: a registered peer P with role r locked itself (lock_connection with
\* peer_id = P), P's connection has closed, and another connection N sends
\* reconnect_with_lock with that lock before it expires: the reply is
\* peer_joined with peerId = N and role = r, and N is registered in the
\* peers map with role r.
C7_RoleInherited ==
  (/\ ev.op = "reconnect_with_lock" /\ ev.res = "RECONNECTED"
   /\ lockedRole[ev.lockId] # NoId
   /\ ev.c # ev.peerId
   /\ conn[ev.peerId] = "closed")
    => /\ Len(sent[ev.c]) = 1
       /\ sent[ev.c][1].type = "peer_joined"
       /\ sent[ev.c][1].peerId = ev.c
       /\ sent[ev.c][1].role = lockedRole[ev.lockId]
       /\ ev.c \in DOMAIN peers
       /\ peers[ev.c].role = lockedRole[ev.lockId]

\* C8: a relayed webrtc_offer, webrtc_answer or ice_candidate goes to
\* exactly one connection, the connection of the room whose id is
\* targetPeerId, with type, targetPeerId and body as the client sent them
\* and fromPeerId equal to the sender's connection id whatever fromPeerId
\* the client wrote; when the room has no connection with that id nothing
\* goes to anyone, the sender included.
C8_Relay ==
  ev.op = "relay" =>
    LET m == ev.message
        t == m.targetPeerId
    IN IF t \in getConnections(conn)
       THEN /\ Len(sent[t]) = 1
            /\ sent[t][1].type = m.type
            /\ sent[t][1].targetPeerId = m.targetPeerId
            /\ sent[t][1].body = m.body
            /\ sent[t][1].fromPeerId = ev.c
            /\ \A x \in ConnIds \ {t} : sent[x] = <<>>
       ELSE \A x \in ConnIds : sent[x] = <<>>

\* C8 witness: a relay whose client wrote another connection's id as
\* fromPeerId reached its target, a connection other than the sender.
C8_Witness ==
  /\ ev.op = "relay"
  /\ ev.message.fromPeerId \notin {NoId, ev.c}
  /\ ev.message.targetPeerId # ev.c
  /\ Len(sent[ev.message.targetPeerId]) = 1

\* a relay was dropped because its target is not in the room
C8_Dropped ==
  /\ ev.op = "relay"
  /\ ev.message.targetPeerId \notin getConnections(conn)
  /\ sent = NoSent

\* C9: when the connection c of a registered peer closes, every other
\* connection of the room gets exactly one error PEER_DISCONNECTED and
\* nobody else gets anything, c and only c leaves the peers map, and when
\* the peers map is then empty the room's code no longer validates; the
\* connection is closed afterwards, so its close logic does not run again.
C9_Step ==
  \A c \in ConnIds :
    (ev'.op = "close" /\ ev'.c = c)
      => /\ conn[c] # "closed" /\ conn'[c] = "closed"
         /\ c \notin DOMAIN peers'
         /\ DOMAIN peers' = DOMAIN peers \ {c}
         /\ \A p \in DOMAIN peers' : peers'[p] = peers[p]
         /\ DOMAIN peers' = {} => ~validateCode(activeCodes', RoomId, now').ok
         /\ IF c \in DOMAIN peers
            THEN \A x \in ConnIds :
                   IF x # c /\ conn[x] # "closed"
                   THEN /\ Len(sent'[x]) = 1
                        /\ sent'[x][1].type = "error"
                        /\ sent'[x][1].code = "PEER_DISCONNECTED"
                   ELSE sent'[x] = <<>>
            ELSE sent' = NoSent

C9_PeerClose == [][C9_Step]_vars

\* C9 witness: the last registered peer closed while another connection was
\* in the room; that one got PEER_DISCONNECTED and the code is gone.
C9_Witness ==
  /\ ev.op = "close" /\ ev.res = "peer"
  /\ DOMAIN peers = {}
  /\ RoomId \notin DOMAIN activeCodes
  /\ \E x \in ConnIds : /\ x # ev.c
                        /\ Len(sent[x]) = 1
                        /\ sent[x][1].code = "PEER_DISCONNECTED"

\* C11: in every reachable state of the room, two registered peers have
\* different roles (one sender, one receiver), whatever sequence of
\* generate_code, join_room and reconnect_with_lock messages was handled.
C11_RolesDiffer ==
  \A p \in DOMAIN peers, q \in DOMAIN peers :
    p # q => peers[p].role # peers[q].role

\* C13: deserializeChunk(serializeChunk(c)) = c (same index, size and
\* payload) for every chunk c whose size is the length of its payload; the
\* serialized form is the index as u32 little-endian, the size as u32
\* little-endian, then the payload.
C13_FramingRoundTrip ==
  LET w == serializeChunk(chunk)
  IN chunk.size = Len(chunk.data) =>
       /\ Len(w) = 8 + Len(chunk.data)
       /\ w[1] + 256 * w[2] + 65536 * w[3] + 16777216 * w[4] = chunk.index
       /\ w[5] + 256 * w[6] + 65536 * w[7] + 16777216 * w[8] = chunk.size
       /\ \A k \in 1..Len(chunk.data) : w[8 + k] = chunk.data[k]
       /\ \A k \in 1..8 : w[k] \in 0..255
       /\ (parsed.called /\ parsed.input = w) => (parsed.ok /\ parsed.chunk = chunk)

\* C13 witness: a chunk with a multi-byte index and a non-empty payload was
\* serialized and the frame was deserialized back to it.
C13_Witness ==
  /\ chunk.index > 65536 /\ chunk.data # <<>> /\ chunk.size = Len(chunk.data)
  /\ parsed.called /\ parsed.input = serializeChunk(chunk)
  /\ parsed.ok /\ parsed.chunk = chunk

\* C15: deserializeChunk fails on every input shorter than 8 bytes, and on
\* every input whose size field is larger than the number of bytes that
\* follow the 8-byte header.
C15_Malformed ==
  (/\ parsed.called
   /\ \/ Len(parsed.input) < 8
      \/ /\ Len(parsed.input) >= 8
         /\ getUint32(parsed.input, 4) > Len(parsed.input) - 8)
    => ~parsed.ok

\* the part of C15 the code has: an input shorter than 8 bytes is refused
C15_ShortRefused ==
  (parsed.called /\ Len(parsed.input) < 8) => ~parsed.ok

\* C12: for any file F (a zero-byte file included) and any chunk size > 0,
\* a fresh ChunkManager that was given createMetadata(F) and every chunk of
\* split(F), in any arrival order, has isComplete() true and merge() and
\* toFile() return the bytes of F.
C12_SplitMergeRoundTrip ==
  (/\ cm.metadata = createMetadata(file, cm.chunkSize)
   /\ ~stray
   /\ \A k \in DOMAIN split(file, cm.chunkSize) :
        split(file, cm.chunkSize)[k].index \in DOMAIN cm.receivedChunks)
    => /\ isComplete(cm)
       /\ merge(cm).ok
       /\ merge(cm).bytes = file.bytes
       /\ toFile(cm).ok
       /\ toFile(cm).file.bytes = file.bytes

\* C12 witness: a file whose last chunk is not full was split in more than
\* one chunk, the last chunk arrived first, and the merge gave the file back.
C12_Witness ==
  /\ cm.metadata = createMetadata(file, cm.chunkSize)
  /\ ~stray
  /\ Len(file.bytes) % cm.chunkSize # 0
  /\ Len(arrival) = cm.metadata.totalChunks
  /\ Len(arrival) > 1
  /\ arrival[1] = cm.metadata.totalChunks - 1
  /\ merge(cm).ok /\ merge(cm).bytes = file.bytes

\* C14: with metadata set, after any sequence of addChunk calls (chunks
\* whose index is >= totalChunks included): merge() fails when an index in
\* [0, totalChunks) was not added, and when none is missing it returns the
\* stored payloads concatenated in increasing index order.
C14_MergeCompleteness ==
  cm.metadata # NoMetadata =>
    IF \E i \in 0..(cm.metadata.totalChunks - 1) : i \notin DOMAIN cm.receivedChunks
    THEN ~merge(cm).ok
    ELSE /\ merge(cm).ok
         /\ merge(cm).bytes = collect(cm.receivedChunks, cm.metadata.totalChunks)

\* the part of C14 the code has: merge() fails when an index is missing
C14_MissingFails ==
  (cm.metadata # NoMetadata /\ getMissingChunks(cm) # {}) => ~merge(cm).ok

\* the receiver took every frame the sender made
PipeDone ==
  pipe.sent /\ ~pipe.failed /\ pipe.taken = Len(pipe.serializedChunks)

\* C16: the sender compressed every chunk of a file (a file the sender
\* compresses has at least one chunk).  If the receiver reassembles the
\* chunks without decompressing them, the reassembled bytes differ from the
\* original file; if it decompresses each chunk, they equal the original.
C16_FlagSensitivity ==
  (pipe.supported /\ pipe.shouldCompress /\ file.bytes # <<>> /\ PipeDone)
    => /\ isComplete(cm)
       /\ toFile(cm).ok
       /\ pipe.isCompressed => toFile(cm).file.bytes = file.bytes
       /\ ~pipe.isCompressed => toFile(cm).file.bytes # file.bytes

\* C16 witness: a file of more than one chunk was compressed chunk by chunk
\* and put together without decompression; the result is not the file.
C16_Witness ==
  /\ pipe.supported /\ pipe.shouldCompress /\ ~pipe.isCompressed /\ PipeDone
  /\ Len(pipe.serializedChunks) > 1
  /\ toFile(cm).ok /\ toFile(cm).file.bytes # file.bytes

\* the other half of the case: the same frames, decompressed, give the file
C16_Decompressed ==
  /\ pipe.supported /\ pipe.shouldCompress /\ pipe.isCompressed /\ PipeDone
  /\ Len(pipe.serializedChunks) > 1
  /\ toFile(cm).file.bytes = file.bytes

\* the session's state is well formed
SessionTypeOK ==
  /\ tm.status \in TransferStatus
  /\ loop.phase \in {"idle", "metadata", "chunks", "done", "aborted"}
  /\ webrtc.dataChannel \in {"none", "connecting", "open", "closed"}

\* C17: on the receiver a chunk taken from the channel is decompressed if
\* and only if the compressed flag of the most recent file_metadata is true
\* (no file_metadata yet: not decompressed); the flag of a file_metadata
\* holds for every chunk until the next file_metadata.
C17_Step ==
  (tev'.op = "data" /\ tev'.kind = "chunk")
    => ((Len(tm'.pending) > Len(tm.pending)) <=> lastMeta.compressed)

C17_FlagThreaded == [][C17_Step]_vars

\* C17 witness: a chunk was taken and not decompressed under a
\* file_metadata with compressed = false, while a chunk taken under an
\* earlier file_metadata with compressed = true is still being decompressed.
C17_Witness ==
  /\ tev.op = "data" /\ tev.kind = "chunk"
  /\ lastMeta.type = "file_metadata" /\ ~lastMeta.compressed
  /\ Len(tm.pending) > 0
  /\ DOMAIN tm.chunkManager.receivedChunks # {}

\* cancel() left the session cleaned up
Cleaned ==
  /\ tm.status = "cancelled"
  /\ webrtc.dataChannel = "none"
  /\ signaling = "disconnected"
  /\ tm.chunkManager.receivedChunks = EmptyMap
  /\ tm.chunkManager.metadata = NoMetadata
  /\ ~tm.eventHandlers
  /\ tm.signalingHandlers = 0 /\ tm.webrtcHandlers = 0

\* C18: cancel() in any status sets the status to cancelled and runs
\* cleanup (data channel closed, signaling disconnected, accumulator
\* cleared, subscriptions dropped); after cancel() no step of the sender's
\* loop, no pending chunk processing and no late event changes the status
\* away from cancelled.
C18_Step ==
  /\ tev'.op = "cancel" => Cleaned'
  /\ tm.status = "cancelled" => tm'.status = "cancelled"

C18_CancelFinal == [][C18_Step]_vars

\* the part of C18 the code has: cancel() sets cancelled and cleans up
C18_CancelCleans == tev.op = "cancel" => Cleaned

\* and a cancelled sender's loop stops without touching the status
C18_SenderStays ==
  [][(tm.role = "sender" /\ tm.status = "cancelled") => tm'.status = "cancelled"]_vars

\* C19: when the data channel reports disconnected or error while the
\* status is neither completed nor cancelled, the status becomes error and
\* an error event goes to the session's subscribers.
C19_ChannelLoss ==
  (tev.op \in {"disconnected", "error"} /\ tev.before \notin {"completed", "cancelled"})
    => /\ tm.status = "error"
       /\ tm.eventHandlers =>
            \E i \in 1..Len(tm.emitted) : tm.emitted[i].type = "error"

\* C19 witness: the channel was lost while the session was transferring; the
\* subscribers got the error event.
C19_Witness ==
  /\ tev.op = "disconnected" /\ tev.before = "transferring"
  /\ tm.status = "error" /\ tm.eventHandlers
  /\ \E i \in 1..Len(tm.emitted) : tm.emitted[i].type = "error"

\* what the sender handed to the data channel
IsMetadata(m) == m.kind = "string" /\ m.message.type = "file_metadata"
IsChunk(m) == m.kind = "binary"
IsTransferComplete(m) == m.kind = "string" /\ m.message.type = "transfer_complete"

\* chunk i of file k was handed over before position p
HandedBefore(k, i, p) ==
  \E q \in 1..(p - 1) :
    /\ IsChunk(webrtc.out[q]) /\ webrtc.out[q].file = k
    /\ getUint32(webrtc.out[q].bytes, 0) = i

\* every chunk of file k was handed over before position p
FileHandedBefore(k, p) ==
  \A i \in 0..(createMetadata(tm.files[k], tm.options.chunkSize).totalChunks - 1) :
    HandedBefore(k, i, p)

\* C20: the sender never has two files in flight: the file_metadata of
\* file N+1 is handed to the channel only after the last chunk of file N,
\* the chunks of a file are handed over in increasing index order after
\* the file's file_metadata, and transfer_complete is handed over (and the
\* sender is completed) only after the last chunk of the last file.
C20_OneFileInFlight ==
  LET out == webrtc.out
      n == Len(out)
  IN /\ \A p \in 1..n : IsMetadata(out[p]) =>
          /\ \A q \in 1..(p - 1) : IsMetadata(out[q]) => out[q].file < out[p].file
          /\ \A k \in 1..(out[p].file - 1) : FileHandedBefore(k, p)
     /\ \A q \in 1..n : IsChunk(out[q]) =>
          /\ \E p \in 1..(q - 1) : IsMetadata(out[p]) /\ out[p].file = out[q].file
          /\ \A r \in 1..(q - 1) :
               (IsChunk(out[r]) /\ out[r].file = out[q].file)
                 => getUint32(out[r].bytes, 0) < getUint32(out[q].bytes, 0)
     /\ \A p \in 1..n : IsTransferComplete(out[p]) =>
          \A k \in 1..Len(tm.files) : FileHandedBefore(k, p)
     /\ (tm.role = "sender" /\ tm.status = "completed") =>
          /\ n > 0 /\ IsTransferComplete(out[n])
          /\ \A k \in 1..Len(tm.files) : FileHandedBefore(k, n)

\* C20 witness: two files were sent, the first in more than one chunk, and
\* the sender is completed.
C20_Witness ==
  /\ tm.role = "sender" /\ tm.status = "completed"
  /\ Len(tm.files) = 2
  /\ createMetadata(tm.files[1], tm.options.chunkSize).totalChunks > 1
  /\ createMetadata(tm.files[2], tm.options.chunkSize).totalChunks > 0
  /\ IsTransferComplete(webrtc.out[Len(webrtc.out)])

(* ------------------------------- C21 ---------------------------------- *)
\* C21: cancelled and error are terminal: once the status of the session is
\* cancelled or error, no step (signaling message, channel event, inbound
\* datagram, API call, continuation of pending work) changes it to another
\* status.
C21_Step ==
  tm.status \in {"cancelled", "error"} => tm'.status = tm.status

C21_Terminal == [][C21_Step]_vars

(* ------------------------------- C22 ---------------------------------- *)
\* C22: every code generateCode returns is a string of exactly 6 decimal
\* digits (leading zeros kept).
C22_SixDigits ==
  gen.op = "generateCode" =>
    /\ Len(gen.code) = 6
    /\ \A i \in 1..Len(gen.code) : gen.code[i] \in 0..9

\* what the generator does give: 4 decimal digits
C22_FourDigits ==
  gen.op = "generateCode" =>
    /\ Len(gen.code) = RandomCodeLength
    /\ \A i \in 1..Len(gen.code) : gen.code[i] \in 0..9

(* ------------------------------- C23 ---------------------------------- *)
\* registered and not expired at time t
ActiveAt(codes, code, t) ==
  code \in DOMAIN codes /\ ~(t - codes[code].createdAt > CODE_EXPIRY_MS)

\* C23: generateCode never returns a code that is active (registered and
\* unexpired) at the moment it returns; when all 200 draws collide with
\* active codes it fails instead of returning a code.
C23_NeverActive ==
  gen.op = "generateCode" => ~ActiveAt(gen.activeCodes, gen.code, gen.now)

\* a code returned before the last pass of the loop is not active
C23_EarlyReturnFree ==
  (gen.op = "generateCode" /\ gen.attempts < 2 * maxAttempts) =>
     ~ActiveAt(gen.activeCodes, gen.code, gen.now)

(* ------------------------------- C24 ---------------------------------- *)
\* C24: after an unexpected close the client makes at most 3 reconnect
\* attempts without a successful open in between, waiting 1 s before the
\* first, 2 s before the second and 4 s before the third (never more than
\* 10 s); a successful open resets the attempt count to 0.
C24_Backoff ==
  /\ Len(sc.delays) <= 3
  /\ sc.reconnectAttempts = Len(sc.delays)
  /\ \A k \in 1..Len(sc.delays) :
       sc.delays[k] = 1000 * 2 ^ (k - 1) /\ sc.delays[k] <= 10000
  /\ sc.op = "open" => sc.reconnectAttempts = 0

\* the part about the number of attempts, the cap and the reset
C24_AtMostThree ==
  /\ Len(sc.delays) <= 3
  /\ sc.reconnectAttempts = Len(sc.delays)
  /\ \A k \in 1..Len(sc.delays) : sc.delays[k] <= 10000
  /\ sc.op = "open" => sc.reconnectAttempts = 0

\* the delays the client does wait: 2 s, 4 s, 8 s
C24_DelaysDoubleFromTwo ==
  \A k \in 1..Len(sc.delays) : sc.delays[k] = 1000 * 2 ^ k

(* ------------------------------- C25 ---------------------------------- *)
\* C25: a client message of an unknown type is answered with error
\* INVALID_CODE to its sender only; peers, locks, codes, rate-limit and
\* lockout state stay as they are and no other connection is sent anything.
C25_Step ==
  ev'.op = "unknown" =>
    /\ sent'[ev'.c] = <<[type |-> "error", code |-> "INVALID_CODE",
                         message |-> "Unknown message type"]>>
    /\ \A d \in ConnIds \ {ev'.c} : sent'[d] = <<>>
    /\ UNCHANGED <<conn, peers, locks, activeCodes, rateLimits, lockouts, other>>

C25_UnknownType == [][C25_Step]_vars

\* an unknown message handled while the room has a second open connection,
\* a peer, a lock, and rate-limit and lockout records
C25_Witness ==
  /\ ev.op = "unknown"
  /\ \E d \in ConnIds \ {ev.c} : conn[d] = "open"
  /\ DOMAIN peers # {} /\ DOMAIN locks # {} /\ DOMAIN activeCodes # {}
  /\ DOMAIN rateLimits # {} /\ DOMAIN lockouts # {}

(* ------------------------------- C26 ---------------------------------- *)
\* C26: lock_connection mints a lock that expires 300 s after it is minted;
\* a reconnect_with_lock that arrives after the lock's expiry is answered
\* LOCK_EXPIRED, removes the lock and leaves the peers map unchanged; a lock
\* minted in another room is not found (LOCK_NOT_FOUND).
C26_Step ==
  /\ ev'.op = "lock_connection" =>
       /\ ev'.lockId \in DOMAIN locks' /\ ev'.lockId \notin DOMAIN locks
       /\ locks'[ev'.lockId].expiresAt = now + 300 * 1000
  /\ (ev'.op = "reconnect_with_lock" /\ ev'.lockId \in DOMAIN locks
        /\ now > locks[ev'.lockId].expiresAt) =>
       /\ ev'.res = "LOCK_EXPIRED"
       /\ sent'[ev'.c] = <<[type |-> "error", code |-> "LOCK_EXPIRED",
                            message |-> "Lock has expired"]>>
       /\ ev'.lockId \notin DOMAIN locks'
       /\ peers' = peers
  /\ (ev'.op = "reconnect_with_lock" /\ ev'.lockId \notin DOMAIN locks) =>
       /\ ev'.res = "LOCK_NOT_FOUND"
       /\ UNCHANGED <<peers, locks, other>>

C26_LockExpiry == [][C26_Step]_vars

\* a reconnect that came after its lock's expiry
C26_Witness ==
  /\ ev.op = "reconnect_with_lock" /\ ev.res = "LOCK_EXPIRED"
  /\ ev.peerId \in DOMAIN peers

\* a reconnect with a lock that only the second room holds
C26_ForeignLock ==
  /\ ev.op = "reconnect_with_lock" /\ ev.res = "LOCK_NOT_FOUND"
  /\ ev.lockId \in DOMAIN other.locks

(* ------------------------------- C27 ---------------------------------- *)
\* C27: a join_room sent in room r registers the sender as a peer of r only
\* if its code equals r.
C27_Step ==
  (ev'.op = "join_room" /\ ev'.c \in DOMAIN peers' /\ peers' # peers) =>
     ev'.code = RoomId

C27_OwnCodeOnly == [][C27_Step]_vars

\* while no other room has registered a code, only the room's own code admits
C27_AloneOwnCode ==
  (ev.op = "join_room" /\ ev.res = "JOINED" /\ OtherCode \notin DOMAIN activeCodes)
     => ev.code = RoomId

(* ------------------------------- C28 ---------------------------------- *)
\* C28: addChunk returns true the first time an index is added and false
\* for every later chunk with the same index; a duplicate leaves the stored
\* payload of that index, the received count and isComplete() unchanged.
\* Stated for every chunk that can be offered to the ChunkManager in its
\* present state, and for the indexes it has accepted so far.
C28_Duplicates ==
  /\ DOMAIN cm.receivedChunks = {arrival[k] : k \in 1..Len(arrival)}
  /\ \A j, k \in 1..Len(arrival) : arrival[j] = arrival[k] => j = k
  /\ \A c \in SplitChunks \cup StrayChunks :
       LET first == addChunk(cm, c)
       IN /\ first.ok = (c.index \notin DOMAIN cm.receivedChunks)
          /\ first.ok => first.cm.receivedChunks[c.index] = c.data
          /\ \A d \in SplitChunks \cup StrayChunks :
               d.index = c.index =>
                 LET again == addChunk(first.cm, d)
                 IN /\ ~again.ok
                    /\ again.cm.receivedChunks[d.index] = first.cm.receivedChunks[d.index]
                    /\ Cardinality(DOMAIN again.cm.receivedChunks)
                         = Cardinality(DOMAIN first.cm.receivedChunks)
                    /\ isComplete(again.cm) = isComplete(first.cm)

\* a chunk no split produced was offered for an index that was already
\* stored, and was refused: none of the stored payloads is its payload
C28_Witness ==
  /\ stray
  /\ arrival # <<>>
  /\ \A i \in DOMAIN cm.receivedChunks : cm.receivedChunks[i] # StrayData

(* ------------------------------- C29 ---------------------------------- *)
\* the candidates that were queued, and where addIceCandidate was called
\* for a candidate (the positions in applied)
Queued == UNION {{a[i] : i \in 1..Len(a)} : a \in {rtc.arrays[n] : n \in 1..Len(rtc.arrays)}}
AppliedAt(c) == {i \in 1..Len(rtc.applied) : rtc.applied[i] = c}

\* candidate c still waits: in the current queue, or ahead of the iterator
\* of a replay that is in progress
Waits(c) ==
  \/ \E i \in 1..Len(rtc.arrays[rtc.pending]) : rtc.arrays[rtc.pending][i] = c
  \/ \E k \in 1..Len(rtc.tasks) :
       /\ rtc.tasks[k].stage = "replaying"
       /\ \E i \in (rtc.tasks[k].pos + 1)..Len(rtc.arrays[rtc.tasks[k].arr]) :
            rtc.arrays[rtc.tasks[k].arr][i] = c

\* no candidate given to signal() is dropped; nothing is applied before a
\* remote description is set; queued candidates are applied in the order
\* received; once a replay has ended the queue is empty
NothingLost ==
  /\ \A c \in 1..rtc.given : AppliedAt(c) # {} \/ Waits(c)
  /\ ~rtc.remoteDescription => rtc.applied = <<>>
  /\ \A c \in Queued, d \in Queued :
       (c < d /\ AppliedAt(d) # {}) =>
          \E i \in AppliedAt(c) : \A j \in AppliedAt(d) : i < j
  /\ (\E k \in 1..Len(rtc.tasks) : rtc.tasks[k].stage = "done") =>
        rtc.arrays[rtc.pending] = <<>>

AppliedOnce == \A c \in 1..rtc.given : Cardinality(AppliedAt(c)) <= 1

\* C29: no ICE candidate given to signal() is lost: a candidate received
\* while no remote description is set is queued and not applied; when the
\* remote description is then set, every queued candidate is applied once,
\* in the order received, and the queue is empty afterwards, also for
\* candidates that arrive while the description is being set or the queue
\* is being replayed.
C29_QueuedCandidates == NothingLost /\ AppliedOnce

\* nothing is lost, whatever arrives and whenever
C29_NothingLost == NothingLost

\* with one remote description per connection every candidate is applied
\* at most once
C29_OneDescription == Len(rtc.tasks) <= 1 => AppliedOnce

(* C30: the compressed flag of a file's file_metadata is true exactly when
   enableCompression is on, the platform has the streaming codec and the
   file size is between 10 KiB and 100 MiB, both included; a chunk that was
   sent went through compress exactly when the flag is true; the size field
   of a sent chunk is the length of its payload before compress. *)
C30_CompressedFlag ==
  /\ big.phase # "idle" =>
       (big.compressed <=>
          /\ big.enableCompression
          /\ big.supported
          /\ big.size >= 10240
          /\ big.size <= 104857600)
  /\ big.sent # NoSerialized =>
       /\ big.sent.data.gzip <=> big.compressed
       /\ getUint32(big.sent.header, 4) = big.sent.data.end - big.sent.data.start
       /\ getUint32(big.sent.header, 0) = big.next - 1

\* the last chunk of a 100 MiB file was sent compressed
C30_Witness ==
  /\ big.size = 104857600
  /\ big.sent # NoSerialized
  /\ big.sent.data.gzip
  /\ big.next = totalChunks(big.size, big.chunkSize)

(* C31: on a run without cancel() and without an error event the status
   only moves forward in the order idle, connecting, waiting, transferring,
   completed. *)
StatusRank ==
  [s \in TransferStatus |->
     CASE s = "idle" -> 0
       [] s = "connecting" -> 1
       [] s = "waiting" -> 2
       [] s = "transferring" -> 3
       [] s = "completed" -> 4
       [] OTHER -> 5]

C31_Step ==
  (tm.status \notin {"error", "cancelled"} /\ tm'.status \notin {"error", "cancelled"}) =>
    StatusRank[tm'.status] >= StatusRank[tm.status]

C31_ForwardOnly == [][C31_Step]_vars

\* with a data channel that is created once the status never goes back
C31_ForwardWithOneChannel ==
  [][tm'.webrtcHandlers <= 1 => C31_Step]_vars

(* C32: with the data channel open and nobody cancelling, the receiver
   emits for every file of the sender's list, a zero-byte file included, a
   file_received event whose bytes are that file's, and both sessions
   reach completed.  Once the sender's loop has ended and the receiver has
   taken every datagram nothing further happens, so by then every file must
   have been received and both must be completed. *)
LinkQuiet ==
  /\ loop.phase = "done"
  /\ peer.connected
  /\ peer.taken = Len(webrtc.out)
  /\ peer.tm.pending = <<>>

C32_EveryFileReceived ==
  LinkQuiet =>
    /\ \A k \in DOMAIN tm.files :
         \E j \in DOMAIN peer.received : peer.received[j].bytes = tm.files[k].bytes
    /\ tm.status = "completed"
    /\ peer.tm.status = "completed"

\* the files that are not empty are received, in the order of the list,
\* and both sessions are completed
nonEmpty(fs) == SelectSeq(fs, LAMBDA f : f.bytes # <<>>)

C32_NonEmptyFilesReceived ==
  LinkQuiet =>
    /\ peer.received = nonEmpty(tm.files)
    /\ tm.status = "completed"
    /\ peer.tm.status = "completed"

\* the sender's loop ends and the receiver takes every datagram
C32_Terminates == <>[]LinkQuiet

(* C33: the receiver's status is completed only after file_received was
   emitted for every file whose file_metadata came before transfer_complete
   on the channel, also when the chunks are compressed. *)
receivedFile(f) == \E j \in DOMAIN peer.received : peer.received[j].bytes = f.bytes

C33_CompletedAfterFiles ==
  peer.tm.status = "completed" =>
    \A k \in DOMAIN peer.channelFiles : receivedFile(peer.channelFiles[k])

\* when no file is compressed, every file was received before completed
C33_Uncompressed ==
  (peer.tm.status = "completed" /\ \A k \in DOMAIN peer.channelFlags : ~peer.channelFlags[k]) =>
    \A k \in DOMAIN peer.channelFiles : receivedFile(peer.channelFiles[k])

(* C34: a chunk the receiver takes is stored in the accumulator of the file
   whose file_metadata most recently preceded it on the channel; a
   file_metadata dispatched while an earlier chunk is still being
   decompressed does not make that chunk go into the new file's
   accumulator.  The accumulator belongs to the file of the last
   file_metadata taken, so all it holds are chunks of that file. *)
metadataTaken ==
  {p \in 1..peer.taken :
     webrtc.out[p].kind = "string" /\ webrtc.out[p].message.type = "file_metadata"}

currentFile ==
  peer.channelFiles[webrtc.out[CHOOSE p \in metadataTaken : \A q \in metadataTaken : q <= p].file]

C34_OwnAccumulator ==
  metadataTaken # {} =>
    LET chunks == split(currentFile, RecvChunkSize)
        stored == peer.tm.chunkManager.receivedChunks
    IN \A i \in DOMAIN stored : i < Len(chunks) /\ stored[i] = chunks[i + 1].data

\* the chunks of files that are not compressed go to their own file's
\* accumulator
C34_Uncompressed ==
  (\A k \in DOMAIN peer.channelFlags : ~peer.channelFlags[k]) => C34_OwnAccumulator

\* no file is discarded: once everything is taken and decompressed, every
\* file of the channel was received
C34_NoFileDiscarded ==
  (peer.taken = Len(webrtc.out) /\ peer.tm.pending = <<>>) =>
    \A k \in DOMAIN peer.channelFiles : receivedFile(peer.channelFiles[k])

(* C35: once the status is completed no event changes it: a signaling
   error, a channel error or a channel close leaves it completed. *)
C35_Step ==
  (tm.status = "completed"
     /\ tev'.op \in {"signaling_error", "error", "disconnected", "peer_joined", "webrtc_offer",
                     "connected", "data", "decompressed", "sender_step"}) =>
    tm'.status = "completed"

C35_CompletedStays == [][C35_Step]_vars

\* a channel close or loss leaves completed as it is
C35_DisconnectedKeepsCompleted ==
  [][(tm.status = "completed" /\ tev'.op = "disconnected") => tm'.status = "completed"]_vars

(* C36: in one session the data channel is created at most once and its
   handlers are registered at most once; further peer_joined or
   webrtc_offer events create no second channel. *)
C36_CreatedOnce == tm.webrtcHandlers <= 1

\* a sender creates its data channel once, on its first webrtc_offer, and
\* a peer_joined creates nothing there; a peer_joined of the session's own
\* role creates nothing
C36_Step ==
  /\ (tm.role = "sender" /\ tev'.op = "peer_joined") => tm'.webrtcHandlers = tm.webrtcHandlers
  /\ (tm.role = "sender" /\ tev'.op = "webrtc_offer") =>
       tm'.webrtcHandlers = (IF tm.webrtcCreated THEN tm.webrtcHandlers ELSE 1)
  /\ (tev'.op = "peer_joined" /\ tev'.kind = tm.role) => tm'.webrtcHandlers = tm.webrtcHandlers
  /\ tm.role = "sender" => tm'.webrtcHandlers <= 1

C36_SenderCreatesOnce == [][C36_Step]_vars

(* C37: a lock only moves the peer that asked for it: a reconnect_with_lock
   with a lock that a connection minted for another connection's peer id
   neither removes that other, still connected peer from the peers map nor
   gives its entry to a different connection.  Every lock of this
   specification is minted by c2 for c1. *)
C37_Step ==
  (ev'.op = "reconnect_with_lock" /\ ev'.res = "RECONNECTED") =>
    \A p \in DOMAIN peers :
      (p # ev'.c /\ conn[p] = "open") => (p \in DOMAIN peers' /\ peers'[p] = peers[p])

C37_OnlyOwnPeerMoves == [][C37_Step]_vars

\* a reconnect that finds no peer under the lock's peer id changes no peer
C37_AbsentPeer ==
  [][(ev'.op = "reconnect_with_lock" /\ ev'.peerId \notin DOMAIN peers) => peers' = peers]_vars

(* C38: the broker relays a webrtc_offer, webrtc_answer or ice_candidate
   only when its sender is a registered peer of the room; a connection that
   never joined gets no message delivered to another connection. *)
C38_Step ==
  (ev'.op = "relay" /\ ev'.c \notin DOMAIN peers) =>
    \A d \in ConnIds \ {ev'.c} : sent'[d] = <<>>

C38_PeersOnly == [][C38_Step]_vars

\* a relayed message reaches nobody but the connection it names as target
C38_TargetOnly ==
  [][ev'.op = "relay" =>
       \A d \in ConnIds \ {ev'.message.targetPeerId} : sent'[d] = <<>>]_vars

(* C39: in every state of a ChunkManager with metadata set, isComplete()
   is true exactly when getMissingChunks() is empty, after any sequence of
   addChunk calls with any indices (indices >= totalChunks included); and
   isComplete() implies that merge() succeeds. *)
C39_CompleteIffNoneMissing ==
  cm.metadata # NoMetadata =>
    /\ isComplete(cm) <=> getMissingChunks(cm) = {}
    /\ isComplete(cm) => merge(cm).ok

\* the same while every index added is below totalChunks
C39_IndexesInRange ==
  (cm.metadata # NoMetadata
     /\ \A i \in DOMAIN cm.receivedChunks : i < cm.metadata.totalChunks) =>
    /\ isComplete(cm) <=> getMissingChunks(cm) = {}
    /\ isComplete(cm) => merge(cm).ok

\* the second half alone: isComplete() implies that merge() succeeds
C39_CompleteMerges == (cm.metadata # NoMetadata /\ isComplete(cm)) => merge(cm).ok

(* C40: after disconnect() the signaling client opens no socket again by
   itself: as long as connect() is not called, the onclose of the socket
   that disconnect() closed schedules no reconnect, and a reconnect timer
   that was pending when disconnect() was called opens no connection when
   it fires. *)
C40_Step ==
  (sc.socket = "none" /\ sc'.op # "connect") =>
    /\ sc'.socket = "none"
    /\ sc'.timer \in {Null, sc.timer}

====
